---- MODULE Spec2Model ----
(***************************************************************************)
(* Realm event core (runtime/realm/event_impl.cc): generational events,    *)
(* their cross-node trigger / subscribe / update protocol, the lock-free   *)
(* event merger and user events.                                           *)
(*                                                                         *)
(* SpecEvent : one generational event seen from its owner node and from    *)
(*             one non-owner node, with the active messages in flight.     *)
(* SpecMerge : merge_events / EventMerger over events of one node.         *)
(* SpecUser  : UserEvent::trigger / cancel and DeferredEventTrigger.       *)
(* SpecBarrier : one phase barrier on its owner and on one other node;     *)
(*             SpecArrive, SpecAdjust and SpecReduce are its arrival,      *)
(*             arrival-count and reduction scenarios.                      *)
(* SpecResult : SpecReduce with arrivals that carry no reduce value.      *)
(* SpecQuery, SpecDelivered : SpecEvent with has_triggered calls in two    *)
(*             steps, and with the messages eventually handled.            *)
(* SpecAnyGen, SpecSubscribe : the event with trigger called, and with      *)
(*             Subscribe sent, for any generation.                         *)
(* SpecFree  : the owner's trigger in two steps, free_entry and the wake.  *)
(* SpecWait  : external_wait beside that two-step trigger.                *)
(* SpecDeferred : barrier arrivals that wait for an event.                 *)
(***************************************************************************)
EXTENDS Integers, Sequences, FiniteSets, Bags, TLC

\* ------------------------------------------------------------------ bounds
\* highest generation of the event that is ever created
MaxGen == 3
\* waiters registered on the event, over both nodes
MaxWaiters == 2

\* event_impl.h (not part of the sources at hand) fixes the capacity of the
\* poisoned generation array; a small capacity keeps the exhaustion reachable
POISONED_GENERATION_LIMIT == 2

\* messages to the owner not yet handled when trigger is called for any generation
MaxPending == 3
\* messages in flight up to which a Subscribe for any generation is sent
MaxSubscribes == 2

Gens == 1..MaxGen
WaiterIds == 1..MaxWaiters
Nodes == {"owner", "remote"}

\* ------------------------------------------------------------ small helpers
RECURSIVE SeqToSet(_)
SeqToSet(s) == IF s = <<>> THEN {} ELSE {Head(s)} \cup SeqToSet(Tail(s))

IsPrefix(s, t) == Len(s) <= Len(t) /\ SubSeq(t, 1, Len(s)) = s

\* ------------------------------------------------------------------- state
VARIABLES
  impl,          \* [Nodes -> GenEventImpl fields] the event on each node
  ev_free,       \* the implementation sits in the owner's free list
  ev_created,    \* generation of the newest handle given out by create_genevent
  trig_started,  \* generations for which GenEventImpl::trigger has been called
  trig_by,       \* [generation -> node that called GenEventImpl::trigger for it, or "none"]
  ot_calls,      \* the trigger calls run on the owner: gen_triggered and the fields found
  ot_wake,       \* to_wake of owner triggers that have left the mutex, not yet fired
  to_owner,      \* active messages remote -> owner, in send order
  to_remote,     \* active messages owner -> remote, in send order
  w_node,        \* [WaiterIds -> node the waiter was registered on]
  w_gen,         \* [WaiterIds -> generation the waiter registered for, 0 = not yet]
  w_fired,       \* [WaiterIds -> sequence of event_triggered calls received]
  ht_watch,      \* <<node, generation>> whose has_triggered calls are followed
  ht_pc,         \* 1 while a has_triggered call is past its lock-free check, else 0
  ht_own,        \* the last call began after its node had called trigger for the generation
  ht_ret,        \* result of the last completed call: "none" | "false" | "clean" | "poisoned"
  ht_true,       \* poison bits the calls have returned together with "true"
  ext_wait,      \* external_wait of waiter ExternalWaiter: position, result, calls seen at return
  fatal          \* "none", or the assertion that aborted the runtime

evVars == <<impl, ev_free, ev_created, trig_started, trig_by, ot_calls, ot_wake, to_owner, to_remote,
            w_node, w_gen, w_fired, ht_watch, ht_pc, ht_own, ht_ret, ht_true, ext_wait>>

\* events of one node, all owned by it, each handle at generation 1
VARIABLES
  lev,           \* [event id -> GenEventImpl fields]
  mg_set,        \* merge_events: wait_for
  mg_ignore,     \* merge_events: ignore_faults
  mg_pc,         \* merge_events: position of the calling thread
  mg_it,         \* merge_events: the iterator (an event id of wait_for)
  mg_wait_count, \* merge_events: wait_count
  mg_first_wait, \* merge_events: first_wait
  mg_finish,     \* merge_events: finish_event, 0 before it is created
  mg_result,     \* merge_events: the event returned, -1 before the return
  m_count,       \* EventMerger::count_needed
  m_faults,      \* EventMerger::faults_observed
  cb_pc,         \* [triggering event -> position of EventMerger::event_triggered]
  cb_poisoned,   \* [triggering event -> the poisoned argument of that call]
  cb_last,       \* [triggering event -> last_trigger of that call]
  f_trigs        \* poisoned arguments of the GenEventImpl::trigger(finish_event, .) calls

mgVars == <<lev, mg_set, mg_ignore, mg_pc, mg_it, mg_wait_count, mg_first_wait,
            mg_finish, mg_result, m_count, m_faults, cb_pc, cb_poisoned, cb_last, f_trigs>>

\* user events of that node
VARIABLES
  u_pc,          \* [Users -> position of the thread using the user event]
  u_wait,        \* [Users -> wait_on of UserEvent::trigger, 0 = NO_EVENT]
  u_cb,          \* [Users -> DeferredEventTrigger::event_triggered: "idle" | "pending" | "done"]
  u_cbp,         \* [Users -> the poisoned argument of that call]
  u_trigs        \* [Users -> poisoned arguments of the GenEventImpl::trigger(u, .) calls]

usVars == <<u_pc, u_wait, u_cb, u_cbp, u_trigs>>

\* one barrier, on its owner and on one other node
VARIABLES
  bar,           \* [Nodes -> BarrierImpl fields]
  b_sub,         \* owner: remote_subscribe_gens[remote], 0 = no entry
  b_rtg,         \* owner: remote_trigger_gens[remote], -1 = no entry
  b_base,        \* base_arrival_count given to create_barrier
  b_redop,       \* create_barrier was given a reduction operator
  b_net,         \* bag of active messages in flight, delivered in any order
  b_issued,      \* [generation -> arrivals issued so far, over both nodes]
  b_applied,     \* [generation -> bag of the reduce values the owner has applied]
  b_hist,        \* [generation -> bag of <<timestamp, delta, was pending>> added to unguarded_delta]
  b_ts,          \* [Nodes -> counter part of barrier_adjustment_timestamp]
  b_handles,     \* <<generation, timestamp>> of the handles alter_arrival_count returned
  b_trigd,       \* generations whose trigger condition the owner has found met
  bw_node,       \* [WaiterIds -> node the waiter was registered on]
  bw_gen,        \* [WaiterIds -> generation the waiter registered for, 0 = not yet]
  bw_fired,      \* [WaiterIds -> sequence of event_triggered calls received]
  b_res          \* the last get_result call: node, generation, return value, buffer

\* arrivals of the barrier that are given a wait_on event
VARIABLES
  wo,            \* [Nodes -> what wait_on's implementation there holds: "no" | "clean" | "poisoned"]
  d_pc,          \* [arrival -> where the arrival is on its way to the owner's count]
  d_gen,         \* [arrival -> barrier generation it was issued for, 0 before]
  d_via          \* [arrival -> the nodes' answers about wait_on that let it through]

dfVars == <<wo, d_pc, d_gen, d_via>>

brVars == <<bar, b_sub, b_rtg, b_base, b_redop, b_net, b_issued, b_applied, b_hist,
            b_ts, b_handles, b_trigd, bw_node, bw_gen, bw_fired, b_res, dfVars>>

vars == <<evVars, mgVars, usVars, brVars, fatal>>

\* no barrier in use
BarrierIdle ==
  /\ bar = <<>>
  /\ b_sub = 0
  /\ b_rtg = -1
  /\ b_base = 0
  /\ b_redop = FALSE
  /\ b_net = EmptyBag
  /\ b_issued = <<>>
  /\ b_applied = <<>>
  /\ b_hist = <<>>
  /\ b_ts = <<>>
  /\ b_handles = {}
  /\ b_trigd = {}
  /\ bw_node = <<>>
  /\ bw_gen = <<>>
  /\ bw_fired = <<>>
  /\ b_res = <<>>
  /\ wo = <<>>
  /\ d_pc = <<>>
  /\ d_gen = <<>>
  /\ d_via = <<>>


\* no user event in use
UserIdle ==
  /\ u_pc = <<>>
  /\ u_wait = <<>>
  /\ u_cb = <<>>
  /\ u_cbp = <<>>
  /\ u_trigs = <<>>

\* ------------------------------------------------------- GenEventImpl data
InitImpl ==
  [ generation            |-> 0,
    gen_subscribed        |-> 0,
    poisoned_generations  |-> <<>>,     \* num_poisoned_generations is its length
    has_local_triggers    |-> FALSE,
    current_local_waiters |-> <<>>,
    future_local_waiters  |-> [g \in Gens |-> <<>>],      \* absent = empty
    local_triggers        |-> [g \in Gens |-> "absent"],  \* "absent" | "clean" | "poisoned"
    remote_waiters        |-> {} ]

num_poisoned_generations(e) == Len(e.poisoned_generations)

is_generation_poisoned(e, gen) ==
  \E i \in 1..Len(e.poisoned_generations) : e.poisoned_generations[i] = gen

PoisonTag(p) == IF p THEN "poisoned" ELSE "clean"

\* has_triggered evaluated in one piece on the fields e: <<triggered, poisoned>>
HasTriggeredSlow(e, needed_gen) ==
  IF ~e.has_local_triggers THEN <<FALSE, FALSE>>
  ELSE IF needed_gen \in Gens /\ e.local_triggers[needed_gen] # "absent"
       THEN <<TRUE, e.local_triggers[needed_gen] = "poisoned">>
       ELSE <<FALSE, FALSE>>

HasTriggeredAt(e, needed_gen) ==
  IF needed_gen <= e.generation
  THEN <<TRUE, is_generation_poisoned(e, needed_gen)>>
  ELSE HasTriggeredSlow(e, needed_gen)


\* --------------------------------------------------- GenEventImpl::trigger
\* the owner path taking any generation for the next one
OwnerTriggerAssert_AnyGeneration(e, gen_triggered, poisoned) ==
  IF \E g \in Gens : e.future_local_waiters[g] # <<>>
  THEN "trigger: future_local_waiters.empty()"
  ELSE IF poisoned /\ ~(num_poisoned_generations(e) < POISONED_GENERATION_LIMIT)
  THEN "trigger: num_poisoned_generations < POISONED_GENERATION_LIMIT"
  ELSE "none"

\* owner path: the assertions taken under the mutex
OwnerTriggerAssert(e, gen_triggered, poisoned) ==
  IF gen_triggered # e.generation + 1
  THEN "trigger: gen_triggered == generation + 1"
  ELSE IF \E g \in Gens : e.future_local_waiters[g] # <<>>
  THEN "trigger: future_local_waiters.empty()"
  ELSE IF poisoned /\ ~(num_poisoned_generations(e) < POISONED_GENERATION_LIMIT)
  THEN "trigger: num_poisoned_generations < POISONED_GENERATION_LIMIT"
  ELSE "none"

\* the owner path putting a poisoned generation at the front of the list
OwnerTriggerState_Prepend(e, gen_triggered, poisoned) ==
  [e EXCEPT !.current_local_waiters = <<>>,
            !.remote_waiters = {},
            !.poisoned_generations = IF poisoned THEN <<gen_triggered>> \o @ ELSE @,
            !.generation = gen_triggered]

\* owner path: the fields after the critical section
OwnerTriggerState(e, gen_triggered, poisoned) ==
  [e EXCEPT !.current_local_waiters = <<>>,
            !.remote_waiters = {},
            !.poisoned_generations = IF poisoned THEN Append(@, gen_triggered) ELSE @,
            !.generation = gen_triggered]

\* an owner path that frees the event whatever its poisoned count
OwnerTriggerFree_Always(e_after) == TRUE

\* owner path: free_event
OwnerTriggerFree(e_after) ==
  num_poisoned_generations(e_after) < POISONED_GENERATION_LIMIT

\* smallest key of the future waiter map, 0 when the map is empty
FutureBegin(e) ==
  IF \A g \in Gens : e.future_local_waiters[g] = <<>> THEN 0
  ELSE CHOOSE g \in Gens : /\ e.future_local_waiters[g] # <<>>
                           /\ \A h \in Gens : e.future_local_waiters[h] # <<>> => g <= h

\* non-owner, gen_triggered == generation + 1: the future list is compared with
\* generation + 1 while generation still holds its old value
RemoteTriggerNextState(e, gen_triggered, poisoned) ==
  LET it == FutureBegin(e)
      promote == it # 0 /\ it = e.generation + 1
      e1 == IF promote
            THEN [e EXCEPT !.current_local_waiters = e.future_local_waiters[it],
                           !.future_local_waiters[it] = <<>>]
            ELSE [e EXCEPT !.current_local_waiters = <<>>]
      e2 == IF poisoned
            THEN [e1 EXCEPT !.local_triggers[gen_triggered] = "poisoned",
                            !.has_local_triggers = TRUE]
            ELSE e1
  IN [e2 EXCEPT !.generation = gen_triggered]

\* the non-contiguous path taking gen_triggered for the node's generation
RemoteTriggerFutureState_Advance(e, gen_triggered, poisoned) ==
  [e EXCEPT !.future_local_waiters[gen_triggered] = <<>>,
            !.local_triggers[gen_triggered] = PoisonTag(poisoned),
            !.has_local_triggers = TRUE,
            !.gen_subscribed = gen_triggered,
            !.generation = gen_triggered]

\* non-owner, gen_triggered > generation + 1
RemoteTriggerFutureState(e, gen_triggered, poisoned) ==
  [e EXCEPT !.future_local_waiters[gen_triggered] = <<>>,
            !.local_triggers[gen_triggered] = PoisonTag(poisoned),
            !.has_local_triggers = TRUE,
            !.gen_subscribed = gen_triggered]

\* the waiter that GenEventImpl::external_wait puts on its stack
ExternalWaiter == 1

\* no external_wait call has passed its add_waiter
ExternalWaitIdle == [pc |-> "start", poisoned |-> FALSE, fired |-> 0]

\* one event_triggered call per waiter of ws, recorded with what has_triggered
\* answers on the node at that moment for the generation the waiter asked for,
\* with the node's generation, and with whether the waiter came from a list
Notify(fired, wgen, ws, egen, poisoned, e_now, queued) ==
  [k \in WaiterIds |->
     IF k \in SeqToSet(ws)
     THEN Append(fired[k], [gen |-> egen, poisoned |-> poisoned,
                            ht |-> HasTriggeredAt(e_now, wgen[k]),
                            now |-> e_now.generation, queued |-> queued])
     ELSE fired[k]]

TriggerMsg(g, p)      == [type |-> "Trigger", gen |-> g, poisoned |-> p]
SubscribeMsg(g, prev) == [type |-> "Subscribe", gen |-> g, previous_subscribe_gen |-> prev]
UpdateMsg(g, pl)      == [type |-> "Update", gen |-> g, poisoned_generations |-> pl]

\* impl->trigger(gen_triggered, ..., poisoned) running on the owner
OwnerTrigger(gen_triggered, poisoned, inbox) ==
  LET e   == impl["owner"]
      why == OwnerTriggerAssert(e, gen_triggered, poisoned)
      e2  == OwnerTriggerState(e, gen_triggered, poisoned)
  IN /\ ot_calls' = ot_calls \cup {[gen_triggered |-> gen_triggered, poisoned |-> poisoned,
                                    found |-> e, local |-> inbox = to_owner]}
     /\ IF why # "none"
        THEN /\ fatal' = why
             /\ to_owner' = inbox
             /\ UNCHANGED <<impl, ev_free, to_remote, w_fired>>
        ELSE /\ impl' = [impl EXCEPT !["owner"] = e2]
             /\ to_remote' = IF "remote" \in e.remote_waiters
                             THEN Append(to_remote, UpdateMsg(gen_triggered, e2.poisoned_generations))
                             ELSE to_remote
             /\ ev_free' = OwnerTriggerFree(e2)
             /\ w_fired' = (
                              Notify(w_fired, w_gen, e.current_local_waiters,
                                     gen_triggered, poisoned, e2, TRUE))
             /\ to_owner' = inbox
             /\ UNCHANGED fatal

\* impl->trigger(gen_triggered, gasnet_mynode(), poisoned) running on the non-owner
RemoteTrigger(gen_triggered, poisoned) ==
  LET e == impl["remote"]
  IN /\ UNCHANGED ot_calls
     /\ IF gen_triggered = e.generation + 1
        THEN LET e2 == RemoteTriggerNextState(e, gen_triggered, poisoned)
             IN /\ impl' = [impl EXCEPT !["remote"] = e2]
                /\ to_owner' = Append(to_owner, TriggerMsg(gen_triggered, poisoned))
                /\ w_fired' = (
                                 Notify(w_fired, w_gen, e.current_local_waiters,
                                        gen_triggered, poisoned, e2, TRUE))
                /\ UNCHANGED <<ev_free, to_remote, fatal>>
        ELSE IF ~(gen_triggered > e.generation + 1)
        THEN /\ fatal' = "trigger: gen_triggered > generation + 1"
             /\ to_owner' = Append(to_owner, TriggerMsg(gen_triggered, poisoned))
             /\ UNCHANGED <<impl, ev_free, to_remote, w_fired>>
        ELSE LET e2 == RemoteTriggerFutureState(e, gen_triggered, poisoned)
             IN /\ impl' = [impl EXCEPT !["remote"] = e2]
                /\ to_owner' = to_owner \o <<TriggerMsg(gen_triggered, poisoned),
                                             SubscribeMsg(gen_triggered, e.gen_subscribed)>>
                /\ w_fired' = (
                                 Notify(w_fired, w_gen, e.future_local_waiters[gen_triggered],
                                        gen_triggered, poisoned, e2, TRUE))
                /\ UNCHANGED <<ev_free, to_remote, fatal>>

\* create_genevent()->current_event(): the owner hands out generation + 1
CreateGenEvent ==
  /\ fatal = "none"
  /\ UNCHANGED <<mgVars, usVars, brVars, ext_wait>>
  /\ ev_free
  /\ impl["owner"].generation < MaxGen
  /\ ev_free' = FALSE
  /\ ev_created' = impl["owner"].generation + 1
  /\ UNCHANGED <<impl, trig_started, trig_by, ot_calls, ot_wake, to_owner, to_remote, w_node, w_gen, w_fired,
                 ht_watch, ht_pc, ht_own, ht_ret, ht_true, fatal>>

\* GenEventImpl::trigger(e, poisoned) called on node n for the newest handle
LocalTrigger(n, poisoned) ==
  /\ fatal = "none"
  /\ UNCHANGED <<mgVars, usVars, brVars, ext_wait>>
  /\ ev_created \in Gens
  /\ ev_created \notin trig_started
  /\ trig_started' = trig_started \cup {ev_created}
  /\ trig_by' = [trig_by EXCEPT ![ev_created] = n]
  /\ IF n = "owner"
     THEN OwnerTrigger(ev_created, poisoned, to_owner)
     ELSE RemoteTrigger(ev_created, poisoned)
  /\ UNCHANGED <<ev_created, ot_wake, w_node, w_gen, ht_watch, ht_pc, ht_own, ht_ret, ht_true>>

\* GenEventImpl::trigger(e, poisoned) called on node n with a handle of any
\* generation, triggered before or not
TriggerAny(n, gen_triggered, poisoned) ==
  /\ fatal = "none"
  /\ Len(to_owner) < MaxPending
  /\ UNCHANGED <<mgVars, usVars, brVars, ext_wait>>
  /\ IF n = "owner"
     THEN OwnerTrigger(gen_triggered, poisoned, to_owner)
     ELSE RemoteTrigger(gen_triggered, poisoned)
  /\ UNCHANGED <<ev_created, trig_started, trig_by, ot_wake, w_node, w_gen,
                 ht_watch, ht_pc, ht_own, ht_ret, ht_true>>

\* EventSubscribeMessage::send_request from the non-owner to the owner, for
\* any generation and any previously subscribed generation below it
SubscribeAny(gen, previous_subscribe_gen) ==
  /\ fatal = "none"
  /\ UNCHANGED <<mgVars, usVars, brVars, ext_wait>>
  /\ Len(to_owner) + Len(to_remote) < MaxSubscribes
  /\ previous_subscribe_gen < gen
  /\ to_owner' = Append(to_owner, SubscribeMsg(gen, previous_subscribe_gen))
  /\ UNCHANGED <<impl, ev_free, ev_created, trig_started, trig_by, ot_calls, ot_wake, to_remote,
                 w_node, w_gen, w_fired, ht_watch, ht_pc, ht_own, ht_ret, ht_true, fatal>>

\* EventTriggerMessage::handle_request on the owner
HandleTriggerMessage ==
  /\ fatal = "none"
  /\ UNCHANGED <<mgVars, usVars, brVars, ext_wait>>
  /\ to_owner # <<>>
  /\ Head(to_owner).type = "Trigger"
  /\ OwnerTrigger(Head(to_owner).gen, Head(to_owner).poisoned, Tail(to_owner))
  /\ UNCHANGED <<ev_created, trig_started, trig_by, ot_wake, w_node, w_gen, ht_watch, ht_pc, ht_own, ht_ret, ht_true>>


\* ------------------------------------------------ GenEventImpl::add_waiter
\* <<trigger_now, trigger_poisoned>> as decided under the mutex
AddWaiterNow(e, needed_gen) ==
  IF needed_gen <= e.generation
  THEN <<TRUE, is_generation_poisoned(e, needed_gen)>>
  ELSE IF e.local_triggers[needed_gen] # "absent"
       THEN <<TRUE, e.local_triggers[needed_gen] = "poisoned">>
       ELSE <<FALSE, FALSE>>

AddWaiterAssert(e, is_owner, needed_gen) ==
  IF needed_gen <= e.generation THEN "none"
  ELSE IF e.local_triggers[needed_gen] # "absent"
       THEN IF is_owner THEN "add_waiter: owner != gasnet_mynode() (local trigger)" ELSE "none"
       ELSE IF needed_gen # e.generation + 1 /\ is_owner
            THEN "add_waiter: owner != gasnet_mynode() (future waiter)"
            ELSE "none"

\* whether the call starts a subscription
AddWaiterSubscribes(e, is_owner, needed_gen) ==
  /\ ~AddWaiterNow(e, needed_gen)[1]
  /\ ~is_owner
  /\ e.gen_subscribed < needed_gen

\* the fields after the critical section
AddWaiterState(e, is_owner, needed_gen, waiter) ==
  IF AddWaiterNow(e, needed_gen)[1] THEN e
  ELSE LET e1 == IF needed_gen = e.generation + 1
                 THEN [e EXCEPT !.current_local_waiters = Append(@, waiter)]
                 ELSE [e EXCEPT !.future_local_waiters[needed_gen] = Append(@, waiter)]
       IN IF AddWaiterSubscribes(e, is_owner, needed_gen)
          THEN [e1 EXCEPT !.gen_subscribed = needed_gen]
          ELSE e1

\* EventImpl::add_waiter(make_event(needed_gen), waiter k) on node n
AddWaiter(n, k, needed_gen) ==
  /\ fatal = "none"
  /\ UNCHANGED <<mgVars, usVars, brVars, ext_wait>>
  /\ w_gen[k] = 0
  /\ \A j \in WaiterIds : j < k => w_gen[j] # 0
  /\ needed_gen \in 1..ev_created
  /\ LET e   == impl[n]
         why == AddWaiterAssert(e, n = "owner", needed_gen)
         now == AddWaiterNow(e, needed_gen)
         e2  == AddWaiterState(e, n = "owner", needed_gen, k)
         wg  == [w_gen EXCEPT ![k] = needed_gen]
     IN IF why # "none"
        THEN /\ fatal' = why
             /\ UNCHANGED <<impl, to_owner, w_node, w_gen, w_fired>>
        ELSE /\ impl' = [impl EXCEPT ![n] = e2]
             /\ w_gen' = wg
             /\ w_node' = [w_node EXCEPT ![k] = n]
             /\ to_owner' = IF AddWaiterSubscribes(e, n = "owner", needed_gen)
                            THEN Append(to_owner, SubscribeMsg(needed_gen, e.gen_subscribed))
                            ELSE to_owner
             /\ w_fired' = IF now[1]
                           THEN Notify(w_fired, wg, <<k>>, needed_gen, now[2], e2, FALSE)
                           ELSE w_fired
             /\ UNCHANGED fatal
  /\ UNCHANGED <<ev_free, ev_created, trig_started, trig_by, ot_calls, ot_wake, to_remote, ht_watch, ht_pc, ht_own, ht_ret, ht_true>>

\* ------------------------------------- EventSubscribeMessage::handle_request
\* generation reported back at once, 0 for none
SubscribeTriggerGen(e, gen, previous_subscribe_gen) ==
  IF e.generation >= gen THEN e.generation
  ELSE IF e.generation > previous_subscribe_gen THEN e.generation ELSE 0

\* a handler that records no subscription
SubscribeRecorded_Never(e, gen) == FALSE

SubscribeRecorded(e, gen) ==
  ~(e.generation >= gen) /\ gen = e.generation + 1

SubscribeAssert(e, gen) ==
  IF ~(e.generation >= gen) /\ gen # e.generation + 1 /\ ~(gen <= e.generation)
  THEN "subscribe: args.event.gen <= impl->generation"
  ELSE "none"

HandleSubscribeMessage ==
  /\ fatal = "none"
  /\ UNCHANGED <<mgVars, usVars, brVars, ext_wait>>
  /\ to_owner # <<>>
  /\ Head(to_owner).type = "Subscribe"
  /\ LET m   == Head(to_owner)
         e   == impl["owner"]
         why == SubscribeAssert(e, m.gen)
         tg  == SubscribeTriggerGen(e, m.gen, m.previous_subscribe_gen)
     IN IF why # "none"
        THEN /\ fatal' = why
             /\ UNCHANGED <<impl, to_remote>>
        ELSE /\ impl' = IF SubscribeRecorded(e, m.gen)
                        THEN [impl EXCEPT !["owner"].remote_waiters = @ \cup {"remote"}]
                        ELSE impl
             /\ to_remote' = IF tg > 0
                             THEN Append(to_remote, UpdateMsg(tg, e.poisoned_generations))
                             ELSE to_remote
             /\ UNCHANGED fatal
  /\ to_owner' = Tail(to_owner)
  /\ UNCHANGED <<ev_free, ev_created, trig_started, trig_by, ot_calls, ot_wake, w_node, w_gen, w_fired,
                 ht_watch, ht_pc, ht_own, ht_ret, ht_true>>


\* ------------------------------------------- GenEventImpl::process_update
\* memcmp(poisoned_generations, new_poisoned_generations, new_poisoned_count):
\* the local array holds num_poisoned_generations written entries, the rest of
\* it was never written, so a longer comparison reads indeterminate values
MemcmpEqual(old, new, garbage_equal) ==
  /\ IsPrefix(old, new)
  /\ (Len(old) = Len(new) \/ garbage_equal)

\* the consistency assertions made before the stale-update check
ProcessUpdateCheck(e, new, garbage_equal) ==
  IF Len(new) > 0
  THEN IF ~(num_poisoned_generations(e) <= Len(new))
       THEN "process_update: num_poisoned_generations <= new_poisoned_count"
       ELSE IF num_poisoned_generations(e) > 0
               /\ ~MemcmpEqual(e.poisoned_generations, new, garbage_equal)
            THEN "process_update: memcmp(poisoned_generations, new_poisoned_generations) == 0"
            ELSE "none"
  ELSE IF num_poisoned_generations(e) # 0
       THEN "process_update: num_poisoned_generations == 0"
       ELSE "none"

\* an update that tells nothing new
UpdateIsStale_Never(e, current_gen) == FALSE

\* if(current_gen <= generation) return;
UpdateIsStale(e, current_gen) == current_gen <= e.generation

\* as ProcessUpdateToWake, without the waiters of current_local_waiters
ProcessUpdateToWake_FutureOnly(e, current_gen) ==
  [g \in Gens |->
     IF g <= current_gen /\ e.future_local_waiters[g] # <<>>
     THEN e.future_local_waiters[g]
     ELSE <<>>]

\* the waiters taken out, by the generation they are woken for
ProcessUpdateToWake(e, current_gen) ==
  [g \in Gens |->
     IF g <= current_gen /\ e.future_local_waiters[g] # <<>>
     THEN e.future_local_waiters[g]          \* to_wake[g].swap(it->second)
     ELSE IF g = e.generation + 1 THEN e.current_local_waiters ELSE <<>>]

\* the fields after the critical section (current_gen > generation)
ProcessUpdateState(e, current_gen, new) ==
  LET pl  == IF num_poisoned_generations(e) < Len(new) THEN new ELSE e.poisoned_generations
      nxt == current_gen + 1
      cur == IF nxt \in Gens THEN e.future_local_waiters[nxt] ELSE <<>>
      lt  == IF e.has_local_triggers
             THEN [g \in Gens |-> IF g <= current_gen THEN "absent" ELSE e.local_triggers[g]]
             ELSE e.local_triggers
  IN [e EXCEPT !.poisoned_generations = pl,
               !.current_local_waiters = cur,
               !.future_local_waiters = [g \in Gens |-> IF g <= nxt THEN <<>> ELSE @[g]],
               !.local_triggers = lt,
               !.has_local_triggers = IF @ THEN \E g \in Gens : lt[g] # "absent" ELSE FALSE,
               !.generation = current_gen]

\* the assertions made while the update is applied
ProcessUpdateAssert(e, current_gen, new) ==
  LET e2 == ProcessUpdateState(e, current_gen, new)
  IN IF num_poisoned_generations(e) < Len(new) /\ ~(Len(new) <= POISONED_GENERATION_LIMIT)
     THEN "process_update: new_poisoned_count <= POISONED_GENERATION_LIMIT"
     ELSE IF /\ e.has_local_triggers
             /\ \E g \in Gens : /\ g <= current_gen
                                /\ e.local_triggers[g] # "absent"
                                /\ (e.local_triggers[g] = "poisoned") # is_generation_poisoned(e2, g)
          THEN "process_update: it->second == is_generation_poisoned(it->first)"
          ELSE "none"

RECURSIVE NotifyBuckets(_, _, _, _, _)
NotifyBuckets(fired, wgen, buckets, g, e_now) ==
  IF g > MaxGen THEN fired
  ELSE NotifyBuckets(Notify(fired, wgen, buckets[g], g, is_generation_poisoned(e_now, g), e_now, TRUE),
                     wgen, buckets, g + 1, e_now)

\* EventUpdateMessage::handle_request on the non-owner
HandleUpdateMessage ==
  /\ fatal = "none"
  /\ UNCHANGED <<mgVars, usVars, brVars, ext_wait>>
  /\ to_remote # <<>>
  /\ \E garbage_equal \in BOOLEAN :
       LET m    == Head(to_remote)
           e    == impl["remote"]
           why1 == ProcessUpdateCheck(e, m.poisoned_generations, garbage_equal)
           why2 == ProcessUpdateAssert(e, m.gen, m.poisoned_generations)
           e2   == ProcessUpdateState(e, m.gen, m.poisoned_generations)
       IN IF why1 # "none"
          THEN fatal' = why1 /\ UNCHANGED <<impl, w_fired>>
          ELSE IF UpdateIsStale(e, m.gen)
          THEN UNCHANGED <<impl, w_fired, fatal>>
          ELSE IF why2 # "none"
          THEN fatal' = why2 /\ UNCHANGED <<impl, w_fired>>
          ELSE /\ impl' = [impl EXCEPT !["remote"] = e2]
               /\ w_fired' = NotifyBuckets(w_fired, w_gen,
                                            ProcessUpdateToWake(e, m.gen), 1, e2)
               /\ UNCHANGED fatal
  /\ to_remote' = Tail(to_remote)
  /\ UNCHANGED <<ev_free, ev_created, trig_started, trig_by, ot_calls, ot_wake, to_owner, w_node, w_gen,
                 ht_watch, ht_pc, ht_own, ht_ret, ht_true>>

\* ---------------------------------------------- GenEventImpl::has_triggered
\* the lock-free check of generation; the call goes on to the local triggers
\* when it fails
HasTriggeredBegin ==
  /\ fatal = "none"
  /\ UNCHANGED <<mgVars, usVars, brVars, ext_wait>>
  /\ ht_pc = 0
  /\ ht_watch[2] \in 1..ev_created
  /\ LET e == impl[ht_watch[1]]
         needed_gen == ht_watch[2]
     IN IF needed_gen <= e.generation
        THEN LET p == is_generation_poisoned(e, needed_gen)
             IN /\ ht_ret' = PoisonTag(p)
                /\ ht_true' = ht_true \cup {p}
                /\ UNCHANGED ht_pc
        ELSE /\ ht_pc' = 1
             /\ UNCHANGED <<ht_ret, ht_true>>
  /\ ht_own' = (trig_by[ht_watch[2]] = ht_watch[1])
  /\ UNCHANGED <<impl, ev_free, ev_created, trig_started, trig_by, ot_calls, ot_wake, to_owner, to_remote,
                 w_node, w_gen, w_fired, ht_watch, fatal>>

\* has_local_triggers, then local_triggers under the mutex
HasTriggeredEnd ==
  /\ fatal = "none"
  /\ UNCHANGED <<mgVars, usVars, brVars, ext_wait>>
  /\ ht_pc = 1
  /\ LET r == HasTriggeredSlow(impl[ht_watch[1]], ht_watch[2])
     IN /\ ht_ret' = IF r[1] THEN PoisonTag(r[2]) ELSE "false"
        /\ ht_true' = IF r[1] THEN ht_true \cup {r[2]} ELSE ht_true
  /\ ht_pc' = 0
  /\ UNCHANGED <<impl, ev_free, ev_created, trig_started, trig_by, ot_calls, ot_wake, to_owner, to_remote,
                 w_node, w_gen, w_fired, ht_watch, ht_own, fatal>>

\* the events of the merging node left out
MergeIdle ==
  /\ lev = <<>>
  /\ mg_set = {}
  /\ mg_ignore = FALSE
  /\ mg_pc = "idle"
  /\ mg_it = 0
  /\ mg_wait_count = 0
  /\ mg_first_wait = 0
  /\ mg_finish = 0
  /\ mg_result = -1
  /\ m_count = 0
  /\ m_faults = 0
  /\ cb_pc = <<>>
  /\ cb_poisoned = <<>>
  /\ cb_last = <<>>
  /\ f_trigs = <<>>

\* ------------------------------------------------------------- SpecEvent
\* the event with its waiters on both nodes; no has_triggered call is followed
InitEvent ==
  /\ impl = [n \in Nodes |-> InitImpl]
  /\ ev_free = TRUE
  /\ ev_created = 0
  /\ trig_started = {}
  /\ trig_by = [g \in Gens |-> "none"]
  /\ ot_calls = {}
  /\ ot_wake = <<>>
  /\ to_owner = <<>>
  /\ to_remote = <<>>
  /\ w_node = [k \in WaiterIds |-> "owner"]
  /\ w_gen = [k \in WaiterIds |-> 0]
  /\ w_fired = [k \in WaiterIds |-> <<>>]
  /\ ht_watch = <<"owner", 0>>
  /\ ht_pc = 0
  /\ ht_own = FALSE
  /\ ht_ret = "none"
  /\ ht_true = {}
  /\ ext_wait = ExternalWaitIdle
  /\ fatal = "none"
  /\ MergeIdle
  /\ UserIdle
  /\ BarrierIdle

NextEvent ==
  \/ CreateGenEvent
  \/ \E n \in Nodes, p \in BOOLEAN : LocalTrigger(n, p)
  \/ HandleTriggerMessage
  \/ \E n \in Nodes, k \in WaiterIds, g \in Gens : AddWaiter(n, k, g)
  \/ HandleSubscribeMessage
  \/ HandleUpdateMessage

SpecEvent == InitEvent /\ [][NextEvent]_vars

\* ------------------------------------------------------------ SpecAnyGen
\* the same event without waiters, trigger called for any generation on
\* either node, as often as the caller likes
NextAnyGen ==
  \/ CreateGenEvent
  \/ \E n \in Nodes, g \in Gens, p \in BOOLEAN : TriggerAny(n, g, p)
  \/ HandleTriggerMessage
  \/ HandleSubscribeMessage
  \/ HandleUpdateMessage

SpecAnyGen == InitEvent /\ [][NextAnyGen]_vars

\* the event triggered through its handles, the owner receiving Subscribe
\* messages for any generation
NextSubscribe ==
  \/ CreateGenEvent
  \/ \E n \in Nodes, p \in BOOLEAN : LocalTrigger(n, p)
  \/ \E g \in Gens, prev \in 0..MaxGen : SubscribeAny(g, prev)
  \/ HandleTriggerMessage
  \/ HandleSubscribeMessage
  \/ HandleUpdateMessage

SpecSubscribe == InitEvent /\ [][NextSubscribe]_vars

\* -------------------------------------------------------------- SpecFree
\* the owner's trigger in the two parts other threads can see: up to
\* free_entry(this), and the loop over to_wake that follows it
OwnerTriggerFreed(poisoned) ==
  /\ fatal = "none"
  /\ UNCHANGED <<mgVars, usVars, brVars, ext_wait>>
  /\ ev_created \in Gens
  /\ ev_created \notin trig_started
  /\ trig_started' = trig_started \cup {ev_created}
  /\ trig_by' = [trig_by EXCEPT ![ev_created] = "owner"]
  /\ LET e   == impl["owner"]
         why == OwnerTriggerAssert(e, ev_created, poisoned)
         e2  == OwnerTriggerState(e, ev_created, poisoned)
     IN /\ ot_calls' = ot_calls \cup {[gen_triggered |-> ev_created, poisoned |-> poisoned,
                                       found |-> e, local |-> TRUE]}
        /\ IF why # "none"
           THEN /\ fatal' = why
                /\ UNCHANGED <<impl, ev_free, to_remote, ot_wake>>
           ELSE /\ impl' = [impl EXCEPT !["owner"] = e2]
                /\ to_remote' = IF "remote" \in e.remote_waiters
                                THEN Append(to_remote, UpdateMsg(ev_created, e2.poisoned_generations))
                                ELSE to_remote
                /\ ev_free' = OwnerTriggerFree(e2)
                /\ ot_wake' = Append(ot_wake, [gen |-> ev_created, poisoned |-> poisoned,
                                               to_wake |-> e.current_local_waiters])
                /\ UNCHANGED fatal
  /\ UNCHANGED <<ev_created, to_owner, w_node, w_gen, w_fired,
                 ht_watch, ht_pc, ht_own, ht_ret, ht_true>>

\* "finally, trigger any local waiters" of one such call
OwnerTriggerWake ==
  /\ fatal = "none"
  /\ UNCHANGED <<mgVars, usVars, brVars, ext_wait>>
  /\ \E i \in 1..Len(ot_wake) :
       /\ w_fired' = Notify(w_fired, w_gen, ot_wake[i].to_wake, ot_wake[i].gen,
                            ot_wake[i].poisoned, impl["owner"], TRUE)
       /\ ot_wake' = SubSeq(ot_wake, 1, i - 1) \o SubSeq(ot_wake, i + 1, Len(ot_wake))
  /\ UNCHANGED <<impl, ev_free, ev_created, trig_started, trig_by, ot_calls, to_owner, to_remote,
                 w_node, w_gen, ht_watch, ht_pc, ht_own, ht_ret, ht_true, fatal>>

NextFree ==
  \/ CreateGenEvent
  \/ \E p \in BOOLEAN : OwnerTriggerFreed(p)
  \/ OwnerTriggerWake
  \/ \E n \in Nodes, k \in WaiterIds, g \in Gens : AddWaiter(n, k, g)
  \/ HandleSubscribeMessage
  \/ HandleUpdateMessage

SpecFree == InitEvent /\ [][NextFree]_vars

\* -------------------------------------------------------------- SpecWait
\* GenEventImpl::external_wait(gen_needed, poisoned) on the owner, beside the
\* owner's trigger in its two parts.  The call's add_waiter(gen_needed, &w)
\* is AddWaiter for the waiter ExternalWaiter; gen_needed is w_gen of it.

\* PthreadCondWaiter::poisoned: false from the constructor, then the argument
\* of the last event_triggered call
WaiterPoisoned(fired) ==
  IF fired = <<>> THEN FALSE ELSE fired[Len(fired)].poisoned

\* "while(gen_needed > generation)", the test made under the mutex, on entry and after each wake-up; cv.wait() gives the mutex
\* up and blocks
ExternalWaitCheck ==
  /\ fatal = "none"
  /\ UNCHANGED <<mgVars, usVars, brVars>>
  /\ w_gen[ExternalWaiter] # 0
  /\ ext_wait.pc \in {"start", "woken"}
  /\ ext_wait' = [ext_wait EXCEPT !.pc =
                    IF w_gen[ExternalWaiter] > impl[w_node[ExternalWaiter]].generation
                    THEN "asleep" ELSE "passed"]
  /\ UNCHANGED <<impl, ev_free, ev_created, trig_started, trig_by, ot_calls, ot_wake, to_owner,
                 to_remote, w_node, w_gen, w_fired, ht_watch, ht_pc, ht_own, ht_ret, ht_true, fatal>>

\* cv.wait() returns with the mutex once event_triggered has signalled
ExternalWaitWake ==
  /\ fatal = "none"
  /\ UNCHANGED <<mgVars, usVars, brVars>>
  /\ ext_wait.pc = "asleep"
  /\ w_fired[ExternalWaiter] # <<>>
  /\ ext_wait' = [ext_wait EXCEPT !.pc = "woken"]
  /\ UNCHANGED <<impl, ev_free, ev_created, trig_started, trig_by, ot_calls, ot_wake, to_owner,
                 to_remote, w_node, w_gen, w_fired, ht_watch, ht_pc, ht_own, ht_ret, ht_true, fatal>>

\* "poisoned = w.poisoned" after the mutex is released, and the return, which
\* ends the lifetime of w
ExternalWaitReturn ==
  /\ fatal = "none"
  /\ UNCHANGED <<mgVars, usVars, brVars>>
  /\ ext_wait.pc = "passed"
  /\ ext_wait' = [pc |-> "returned",
                  poisoned |-> WaiterPoisoned(w_fired[ExternalWaiter]),
                  fired |-> Len(w_fired[ExternalWaiter])]
  /\ UNCHANGED <<impl, ev_free, ev_created, trig_started, trig_by, ot_calls, ot_wake, to_owner,
                 to_remote, w_node, w_gen, w_fired, ht_watch, ht_pc, ht_own, ht_ret, ht_true, fatal>>

NextWait ==
  \/ CreateGenEvent
  \/ \E p \in BOOLEAN : OwnerTriggerFreed(p)
  \/ OwnerTriggerWake
  \/ \E g \in Gens : AddWaiter("owner", ExternalWaiter, g)
  \/ ExternalWaitCheck
  \/ ExternalWaitWake
  \/ ExternalWaitReturn

SpecWait == InitEvent /\ [][NextWait]_vars

\* --------------------------------------------------------- SpecDelivered
\* the same event, every active message sent is handled
SpecDelivered ==
  /\ InitEvent
  /\ [][NextEvent]_vars
  /\ WF_vars(HandleTriggerMessage)
  /\ WF_vars(HandleSubscribeMessage)
  /\ WF_vars(HandleUpdateMessage)

\* ------------------------------------------------------------- SpecQuery
\* the has_triggered calls of one node for one generation, interleaved with
\* the triggers and messages; waiter 1 stands for the node's subscriptions
InitQuery ==
  /\ impl = [n \in Nodes |-> InitImpl]
  /\ ev_free = TRUE
  /\ ev_created = 0
  /\ trig_started = {}
  /\ trig_by = [g \in Gens |-> "none"]
  /\ ot_calls = {}
  /\ ot_wake = <<>>
  /\ to_owner = <<>>
  /\ to_remote = <<>>
  /\ w_node = [k \in WaiterIds |-> "owner"]
  /\ w_gen = [k \in WaiterIds |-> 0]
  /\ w_fired = [k \in WaiterIds |-> <<>>]
  /\ ht_watch \in Nodes \X Gens
  /\ ht_pc = 0
  /\ ht_own = FALSE
  /\ ht_ret = "none"
  /\ ht_true = {}
  /\ ext_wait = ExternalWaitIdle
  /\ fatal = "none"
  /\ MergeIdle
  /\ UserIdle
  /\ BarrierIdle

NextQuery ==
  \/ CreateGenEvent
  \/ \E n \in Nodes, p \in BOOLEAN : LocalTrigger(n, p)
  \/ HandleTriggerMessage
  \/ \E n \in Nodes, g \in Gens : AddWaiter(n, 1, g)
  \/ HandleSubscribeMessage
  \/ HandleUpdateMessage
  \/ HasTriggeredBegin
  \/ HasTriggeredEnd

SpecQuery == InitQuery /\ [][NextQuery]_vars


\* ------------------------------------------------- claims on has_triggered
\* C1: on every node, once has_triggered(g) has returned true, every later
\* has_triggered(g) on that node returns true: a call that answers "false" is
\* never preceded by a call that answered "true".
C1_OnceTriggeredStaysTriggered ==
  ht_ret = "false" => ht_true = {}

\* C2: on every node, all has_triggered(g) calls that return true return the
\* same poisoned bit.
C2_PoisonBitStable ==
  Cardinality(ht_true) <= 1

\* C3: whenever a waiter registered for generation g is invoked with
\* poisoned = p, has_triggered(g) on that node at that moment is (true, p).
C3_WaiterObservesTrigger ==
  \A k \in WaiterIds : \A i \in 1..Len(w_fired[k]) :
    w_fired[k][i].ht = <<TRUE, w_fired[k][i].poisoned>>


\* ------------------------------------------------------------- merging
\* input events that merge_events may be handed
MaxInputs == 3

Inputs   == 1..MaxInputs
FinishId == MaxInputs + 1
\* callers of EventMerger::event_triggered: an input event, or 0 for arm()
CbIds    == 0..MaxInputs

MergerWaiter == [kind |-> "EventMerger"]

\* Event::has_triggered_faultaware on this node; id 0 is NO_EVENT
EventHasTriggered(id) ==
  IF id = 0 THEN <<TRUE, FALSE>> ELSE HasTriggeredAt(lev[id], 1)

SetMin(S) == CHOOSE x \in S : \A y \in S : x <= y

\* ++it on the std::set, 0 for end()
NextIt(S, e) == IF \E x \in S : x > e THEN SetMin({x \in S : x > e}) ELSE 0

\* GenEventImpl::trigger(finish_event, poisoned): the owner path on this node
FinishTrigger(poisoned) ==
  LET e   == lev[mg_finish]
      why == OwnerTriggerAssert(e, 1, poisoned)
  IN /\ f_trigs' = Append(f_trigs, poisoned)
     /\ IF why # "none"
        THEN fatal' = why /\ UNCHANGED lev
        ELSE /\ lev' = [lev EXCEPT ![mg_finish] = OwnerTriggerState(e, 1, poisoned)]
             /\ UNCHANGED fatal

\* --- merge_events(wait_for, ignore_faults), the calling thread
MergeBegin ==
  /\ fatal = "none" /\ mg_pc = "idle"
  /\ IF mg_set = {}
     THEN mg_result' = 0 /\ mg_pc' = "returned" /\ UNCHANGED mg_it
     ELSE mg_it' = SetMin(mg_set) /\ mg_pc' = "scan" /\ UNCHANGED mg_result
  /\ UNCHANGED <<lev, mg_set, mg_ignore, mg_wait_count, mg_first_wait, mg_finish,
                 m_count, m_faults, cb_pc, cb_poisoned, cb_last, f_trigs, fatal>>
  /\ UNCHANGED <<evVars, usVars, brVars>>

\* the pre-scan without the shortcut for a single untriggered input
MergeScanResult_NoSingle(wait_count, first_wait, ignore_faults) ==
  IF wait_count = 0 THEN 0 ELSE -1

\* what the pre-scan decides once its loop is left: the event returned, or -1
\* when a merger has to be built
MergeScanResult(wait_count, first_wait, ignore_faults) ==
  IF wait_count = 0 THEN 0
  ELSE IF wait_count = 1 /\ ~ignore_faults THEN first_wait
  ELSE -1

\* one iteration of the pre-scan loop, with what follows the loop when it ends
MergeScan ==
  /\ fatal = "none" /\ mg_pc = "scan"
  /\ LET t  == EventHasTriggered(mg_it)
         wc == IF t[1] THEN mg_wait_count ELSE mg_wait_count + 1
         fw == IF ~t[1] /\ mg_wait_count = 0 THEN mg_it ELSE mg_first_wait
         nx == NextIt(mg_set, mg_it)
         r  == MergeScanResult(wc, fw, mg_ignore)
     IN IF t[1] /\ ~mg_ignore
        THEN /\ mg_result' = mg_it /\ mg_pc' = "returned"
             /\ UNCHANGED <<mg_it, mg_wait_count, mg_first_wait, mg_finish, m_count, m_faults>>
        ELSE IF nx # 0 /\ wc < 2
        THEN /\ mg_it' = nx /\ mg_wait_count' = wc /\ mg_first_wait' = fw
             /\ UNCHANGED <<mg_pc, mg_result, mg_finish, m_count, m_faults>>
        ELSE IF r # -1
        THEN /\ mg_result' = r /\ mg_pc' = "returned"
             /\ mg_wait_count' = wc /\ mg_first_wait' = fw
             /\ UNCHANGED <<mg_it, mg_finish, m_count, m_faults>>
        ELSE /\ mg_finish' = FinishId
             /\ m_count' = 1 /\ m_faults' = 0
             /\ mg_it' = SetMin(mg_set) /\ mg_pc' = "add"
             /\ mg_wait_count' = wc /\ mg_first_wait' = fw
             /\ UNCHANGED mg_result
  /\ UNCHANGED <<lev, mg_set, mg_ignore, cb_pc, cb_poisoned, cb_last, f_trigs, fatal>>
  /\ UNCHANGED <<evVars, usVars, brVars>>

\* the thread moves to the next input, or to arm()
MergeAdvance ==
  LET nx == NextIt(mg_set, mg_it)
  IN IF nx # 0 THEN mg_it' = nx /\ mg_pc' = "add"
     ELSE mg_pc' = "arm" /\ UNCHANGED mg_it

\* add_event: wait_for.has_triggered_faultaware(poisoned)
AddEventCheck ==
  /\ fatal = "none" /\ mg_pc = "add"
  /\ mg_pc' = IF EventHasTriggered(mg_it)[1] THEN "add_fault" ELSE "add_count"
  /\ UNCHANGED <<lev, mg_set, mg_ignore, mg_it, mg_wait_count, mg_first_wait, mg_finish,
                 mg_result, m_count, m_faults, cb_pc, cb_poisoned, cb_last, f_trigs, fatal>>
  /\ UNCHANGED <<evVars, usVars, brVars>>

\* add_event: first_fault = (__sync_fetch_and_add(&faults_observed, 1) == 0)
AddEventFault ==
  /\ fatal = "none" /\ mg_pc = "add_fault"
  /\ m_faults' = m_faults + 1
  /\ IF m_faults = 0 /\ ~mg_ignore
     THEN mg_pc' = "add_poison" /\ UNCHANGED mg_it
     ELSE MergeAdvance
  /\ UNCHANGED <<lev, mg_set, mg_ignore, mg_wait_count, mg_first_wait, mg_finish,
                 mg_result, m_count, cb_pc, cb_poisoned, cb_last, f_trigs, fatal>>
  /\ UNCHANGED <<evVars, usVars, brVars>>

\* add_event: GenEventImpl::trigger(finish_event, true)
AddEventPoison ==
  /\ fatal = "none" /\ mg_pc = "add_poison"
  /\ FinishTrigger(TRUE)
  /\ MergeAdvance
  /\ UNCHANGED <<mg_set, mg_ignore, mg_wait_count, mg_first_wait, mg_finish,
                 mg_result, m_count, m_faults, cb_pc, cb_poisoned, cb_last>>
  /\ UNCHANGED <<evVars, usVars, brVars>>

\* add_event: __sync_fetch_and_add(&count_needed, 1)
AddEventCount ==
  /\ fatal = "none" /\ mg_pc = "add_count"
  /\ m_count' = m_count + 1
  /\ mg_pc' = "add_wait"
  /\ UNCHANGED <<lev, mg_set, mg_ignore, mg_it, mg_wait_count, mg_first_wait, mg_finish,
                 mg_result, m_faults, cb_pc, cb_poisoned, cb_last, f_trigs, fatal>>
  /\ UNCHANGED <<evVars, usVars, brVars>>

\* position at which event_triggered(e, poisoned) starts
CbStart(poisoned) == IF poisoned THEN "fault" ELSE "dec"

\* add_event: EventImpl::add_waiter(wait_for, this); an input triggered in the
\* meantime calls event_triggered at once, in this thread
AddEventWait ==
  /\ fatal = "none" /\ mg_pc = "add_wait"
  /\ LET e   == lev[mg_it]
         now == AddWaiterNow(e, 1)
     IN IF now[1]
        THEN /\ cb_pc' = [cb_pc EXCEPT ![mg_it] = CbStart(now[2])]
             /\ cb_poisoned' = [cb_poisoned EXCEPT ![mg_it] = now[2]]
             /\ mg_pc' = "add_cb"
             /\ UNCHANGED <<lev, mg_it>>
        ELSE /\ lev' = [lev EXCEPT ![mg_it] = AddWaiterState(e, TRUE, 1, MergerWaiter)]
             /\ MergeAdvance
             /\ UNCHANGED <<cb_pc, cb_poisoned>>
  /\ UNCHANGED <<mg_set, mg_ignore, mg_wait_count, mg_first_wait, mg_finish,
                 mg_result, m_count, m_faults, cb_last, f_trigs, fatal>>
  /\ UNCHANGED <<evVars, usVars, brVars>>

\* add_event returns from the synchronous event_triggered call
AddEventReturn ==
  /\ fatal = "none" /\ mg_pc = "add_cb"
  /\ cb_pc[mg_it] = "done"
  /\ MergeAdvance
  /\ UNCHANGED <<lev, mg_set, mg_ignore, mg_wait_count, mg_first_wait, mg_finish,
                 mg_result, m_count, m_faults, cb_pc, cb_poisoned, cb_last, f_trigs, fatal>>
  /\ UNCHANGED <<evVars, usVars, brVars>>

\* arm(): event_triggered(Event::NO_EVENT, false)
MergeArm ==
  /\ fatal = "none" /\ mg_pc = "arm"
  /\ cb_pc' = [cb_pc EXCEPT ![0] = CbStart(FALSE)]
  /\ mg_pc' = "arm_cb"
  /\ UNCHANGED <<lev, mg_set, mg_ignore, mg_it, mg_wait_count, mg_first_wait, mg_finish,
                 mg_result, m_count, m_faults, cb_poisoned, cb_last, f_trigs, fatal>>
  /\ UNCHANGED <<evVars, usVars, brVars>>

\* arm() has returned: return finish_event
MergeReturn ==
  /\ fatal = "none" /\ mg_pc = "arm_cb"
  /\ cb_pc[0] = "done"
  /\ mg_result' = mg_finish
  /\ mg_pc' = "returned"
  /\ UNCHANGED <<lev, mg_set, mg_ignore, mg_it, mg_wait_count, mg_first_wait, mg_finish,
                 m_count, m_faults, cb_pc, cb_poisoned, cb_last, f_trigs, fatal>>
  /\ UNCHANGED <<evVars, usVars, brVars>>


\* event_triggered propagating the first fault whatever ignore_faults says
CbFault_AlwaysPropagates(c) ==
  /\ fatal = "none" /\ cb_pc[c] = "fault"
  /\ m_faults' = m_faults + 1
  /\ cb_pc' = [cb_pc EXCEPT ![c] = IF m_faults = 0 THEN "poison" ELSE "dec"]
  /\ UNCHANGED <<lev, mg_set, mg_ignore, mg_pc, mg_it, mg_wait_count, mg_first_wait,
                 mg_finish, mg_result, m_count, cb_poisoned, cb_last, f_trigs, fatal>>
  /\ UNCHANGED <<evVars, usVars, brVars>>

\* --- EventMerger::event_triggered(c, cb_poisoned[c]), one call per caller c
\* first_fault = (__sync_fetch_and_add(&faults_observed, 1) == 0)
CbFault(c) ==
  /\ fatal = "none" /\ cb_pc[c] = "fault"
  /\ m_faults' = m_faults + 1
  /\ cb_pc' = [cb_pc EXCEPT ![c] = IF m_faults = 0 /\ ~mg_ignore THEN "poison" ELSE "dec"]
  /\ UNCHANGED <<lev, mg_set, mg_ignore, mg_pc, mg_it, mg_wait_count, mg_first_wait,
                 mg_finish, mg_result, m_count, cb_poisoned, cb_last, f_trigs, fatal>>
  /\ UNCHANGED <<evVars, usVars, brVars>>

\* GenEventImpl::trigger(finish_event, true)
CbPoison(c) ==
  /\ fatal = "none" /\ cb_pc[c] = "poison"
  /\ FinishTrigger(TRUE)
  /\ cb_pc' = [cb_pc EXCEPT ![c] = "dec"]
  /\ UNCHANGED <<mg_set, mg_ignore, mg_pc, mg_it, mg_wait_count, mg_first_wait,
                 mg_finish, mg_result, m_count, m_faults, cb_poisoned, cb_last>>
  /\ UNCHANGED <<evVars, usVars, brVars>>

\* count_left = __sync_fetch_and_add(&count_needed, -1); last_trigger = (count_left == 1)
CbDec(c) ==
  /\ fatal = "none" /\ cb_pc[c] = "dec"
  /\ m_count' = m_count - 1
  /\ cb_last' = [cb_last EXCEPT ![c] = (m_count = 1)]
  /\ cb_pc' = [cb_pc EXCEPT ![c] = "check"]
  /\ UNCHANGED <<lev, mg_set, mg_ignore, mg_pc, mg_it, mg_wait_count, mg_first_wait,
                 mg_finish, mg_result, m_faults, cb_poisoned, f_trigs, fatal>>
  /\ UNCHANGED <<evVars, usVars, brVars>>

\* event_triggered triggering on the last input without looking at faults_observed
CbCheck_IgnoresFaults(c) ==
  /\ fatal = "none" /\ cb_pc[c] = "check"
  /\ IF cb_last[c]
     THEN FinishTrigger(FALSE)
     ELSE UNCHANGED <<lev, f_trigs, fatal>>
  /\ cb_pc' = [cb_pc EXCEPT ![c] = "done"]
  /\ UNCHANGED <<mg_set, mg_ignore, mg_pc, mg_it, mg_wait_count, mg_first_wait,
                 mg_finish, mg_result, m_count, m_faults, cb_poisoned, cb_last>>
  /\ UNCHANGED <<evVars, usVars, brVars>>

\* if(last_trigger && (ignore_faults || (faults_observed == 0))) trigger(finish_event, false)
CbCheck(c) ==
  /\ fatal = "none" /\ cb_pc[c] = "check"
  /\ IF cb_last[c] /\ (mg_ignore \/ m_faults = 0)
     THEN FinishTrigger(FALSE)
     ELSE UNCHANGED <<lev, f_trigs, fatal>>
  /\ cb_pc' = [cb_pc EXCEPT ![c] = "done"]
  /\ UNCHANGED <<mg_set, mg_ignore, mg_pc, mg_it, mg_wait_count, mg_first_wait,
                 mg_finish, mg_result, m_count, m_faults, cb_poisoned, cb_last>>
  /\ UNCHANGED <<evVars, usVars, brVars>>

\* GenEventImpl::trigger(e, poisoned) on an input event: the owner path; a
\* queued merger is woken, its event_triggered runs in the triggering thread
TriggerInput(e, poisoned) ==
  /\ fatal = "none"
  /\ e \in mg_set
  /\ lev[e].generation = 0
  /\ lev' = [lev EXCEPT ![e] = OwnerTriggerState(lev[e], 1, poisoned)]
  /\ IF lev[e].current_local_waiters # <<>>
     THEN /\ cb_pc' = [cb_pc EXCEPT ![e] = CbStart(poisoned)]
          /\ cb_poisoned' = [cb_poisoned EXCEPT ![e] = poisoned]
     ELSE UNCHANGED <<cb_pc, cb_poisoned>>
  /\ UNCHANGED <<mg_set, mg_ignore, mg_pc, mg_it, mg_wait_count, mg_first_wait,
                 mg_finish, mg_result, m_count, m_faults, cb_last, f_trigs, fatal>>
  /\ UNCHANGED <<evVars, usVars, brVars>>

\* the distributed event left out
EventIdle ==
  /\ impl = <<>>
  /\ ev_free = FALSE
  /\ ev_created = 0
  /\ trig_started = {}
  /\ trig_by = <<>>
  /\ ot_calls = {}
  /\ ot_wake = <<>>
  /\ to_owner = <<>>
  /\ to_remote = <<>>
  /\ w_node = <<>>
  /\ w_gen = <<>>
  /\ w_fired = <<>>
  /\ ht_watch = <<"owner", 0>>
  /\ ht_pc = 0
  /\ ht_own = FALSE
  /\ ht_ret = "none"
  /\ ht_true = {}
  /\ ext_wait = ExternalWaitIdle

\* ------------------------------------------------------------- SpecMerge
\* one merge_events call over any set of input events, each input triggered
\* (with or without poison) at any moment before, during or after the call
InitMerge ==
  /\ EventIdle
  /\ UserIdle
  /\ BarrierIdle
  /\ fatal = "none"
  /\ lev = [i \in 1..FinishId |-> InitImpl]
  /\ mg_set \in SUBSET Inputs
  /\ mg_ignore \in BOOLEAN
  /\ mg_pc = "idle"
  /\ mg_it = 0
  /\ mg_wait_count = 0
  /\ mg_first_wait = 0
  /\ mg_finish = 0
  /\ mg_result = -1
  /\ m_count = 0
  /\ m_faults = 0
  /\ cb_pc = [c \in CbIds |-> "idle"]
  /\ cb_poisoned = [c \in CbIds |-> FALSE]
  /\ cb_last = [c \in CbIds |-> FALSE]
  /\ f_trigs = <<>>

NextMerge ==
  \/ \E e \in Inputs, p \in BOOLEAN : TriggerInput(e, p)
  \/ MergeBegin
  \/ MergeScan
  \/ AddEventCheck
  \/ AddEventFault
  \/ AddEventPoison
  \/ AddEventCount
  \/ AddEventWait
  \/ AddEventReturn
  \/ MergeArm
  \/ MergeReturn
  \/ \E c \in CbIds : CbFault(c)
  \/ \E c \in CbIds : CbPoison(c)
  \/ \E c \in CbIds : CbDec(c)
  \/ \E c \in CbIds : CbCheck(c)

SpecMerge == InitMerge /\ [][NextMerge]_vars


\* --------------------------------------------------- claims on merging
InputTriggered(e) == lev[e].generation >= 1
InputPoisoned(e)  == is_generation_poisoned(lev[e], 1)
MergerBuilt       == mg_finish # 0
FinishState       == HasTriggeredAt(lev[FinishId], 1)
\* the call has returned, every input has triggered, every callback has run
MergeQuiescent ==
  /\ mg_pc = "returned"
  /\ \A e \in mg_set : InputTriggered(e)
  /\ \A c \in CbIds : cb_pc[c] \in {"idle", "done"}

\* C4: the event returned by merge_events(S, ignore_faults = false) is not
\* triggered without poison while some event of S has not triggered.
C4_MergedWaitsForAll ==
  (mg_pc = "returned" /\ ~mg_ignore /\ EventHasTriggered(mg_result) = <<TRUE, FALSE>>)
    => \A e \in mg_set : InputTriggered(e)

\* C5: for a merger with ignore_faults = false, finish_event is triggered at
\* most once, never without poison when an input is poisoned, and exactly
\* once with poison when an input is poisoned and all callbacks have run.
C5_PoisonedExactlyOnce ==
  (MergerBuilt /\ ~mg_ignore) =>
    /\ Len(f_trigs) <= 1
    /\ fatal = "none"
    /\ (\E e \in mg_set : InputPoisoned(e)) => (\A i \in 1..Len(f_trigs) : f_trigs[i])
    /\ (MergeQuiescent /\ \E e \in mg_set : InputPoisoned(e)) => f_trigs = <<TRUE>>

C5_Witness ==
  /\ MergerBuilt /\ ~mg_ignore /\ MergeQuiescent
  /\ Cardinality({e \in mg_set : InputPoisoned(e) /\ cb_pc[e] = "done"}) >= 2
  /\ f_trigs = <<TRUE>>
  /\ FinishState = <<TRUE, TRUE>>

\* C6: for a merger with ignore_faults = true, finish_event is triggered at
\* most once and without poison, not before arm() was called and every input
\* has triggered, and it has been triggered once all callbacks have run.
C6_IgnoreFaultsTriggersOnce ==
  (MergerBuilt /\ mg_ignore) =>
    /\ f_trigs \in {<<>>, <<FALSE>>}
    /\ fatal = "none"
    /\ f_trigs # <<>> => (mg_pc \in {"arm_cb", "returned"} /\ \A e \in mg_set : InputTriggered(e))
    /\ MergeQuiescent => (f_trigs = <<FALSE>> /\ FinishState = <<TRUE, FALSE>>)

C6_Witness ==
  /\ MergerBuilt /\ mg_ignore /\ MergeQuiescent
  /\ \E e \in mg_set : InputPoisoned(e) /\ cb_pc[e] = "done"
  /\ f_trigs = <<FALSE>>

\* C7: with ignore_faults = false, once the notification of a poisoned input
\* has returned while another input is still untriggered, finish_event is
\* triggered with poison; and finish_event is never triggered a second time.
C7_EagerPoison ==
  (MergerBuilt /\ ~mg_ignore) =>
    /\ \A e \in mg_set :
         (cb_poisoned[e] /\ cb_pc[e] = "done" /\ \E o \in mg_set : ~InputTriggered(o))
           => FinishState = <<TRUE, TRUE>>
    /\ Len(f_trigs) <= 1

MaxUsers  == 2
MaxWaitOn == 2

Users     == 1..MaxUsers
\* events of the node that are not user events
WaitOns   == 1..MaxWaitOn
UserId(u) == MaxWaitOn + u

POISON_FIXME == FALSE

DeferredEventTrigger(after_event) ==
  [kind |-> "DeferredEventTrigger", after_event |-> after_event]

\* Event::has_triggered: the assertion on the poison of a triggered event
EventHasTriggeredAssert(id) ==
  IF EventHasTriggered(id)[1] /\ EventHasTriggered(id)[2] # POISON_FIXME
  THEN "Event::has_triggered: poisoned == POISON_FIXME"
  ELSE "none"

\* events a thread holds a handle of when it calls u.trigger(wait_on)
WaitOnChoices(u) ==
  (0..MaxWaitOn) \cup {UserId(v) : v \in {x \in Users : x < u /\ u_pc[x] # "new"}}

\* GenEventImpl::trigger(id, poisoned) on this node, the owner: every queued
\* DeferredEventTrigger gets its event_triggered call; cb0 is u_cb before the wake
TriggerLocal(id, poisoned, cb0) ==
  LET e     == lev[id]
      why   == OwnerTriggerAssert(e, 1, poisoned)
      woken == {v \in Users : DeferredEventTrigger(UserId(v)) \in SeqToSet(e.current_local_waiters)}
  IN IF why # "none"
     THEN fatal' = why /\ u_cb' = cb0 /\ UNCHANGED <<lev, u_cbp>>
     ELSE /\ lev' = [lev EXCEPT ![id] = OwnerTriggerState(e, 1, poisoned)]
          /\ u_cb' = [v \in Users |-> IF v \in woken THEN "pending" ELSE cb0[v]]
          /\ u_cbp' = [v \in Users |-> IF v \in woken THEN poisoned ELSE u_cbp[v]]
          /\ UNCHANGED fatal

\* the distributed event and the merge_events call take no step
UserUnchanged ==
  UNCHANGED <<evVars, brVars, mg_set, mg_ignore, mg_pc, mg_it, mg_wait_count, mg_first_wait,
              mg_finish, mg_result, m_count, m_faults, cb_pc, cb_poisoned, cb_last, f_trigs>>

\* UserEvent::create_user_event
CreateUserEvent(u) ==
  /\ fatal = "none" /\ u_pc[u] = "new"
  /\ u_pc' = [u_pc EXCEPT ![u] = "created"]
  /\ UNCHANGED <<lev, u_wait, u_cb, u_cbp, u_trigs, fatal>>
  /\ UserUnchanged

\* UserEvent::trigger(wait_on): if(!wait_on.has_triggered())
UserTriggerCheck(u, wait_on) ==
  /\ fatal = "none" /\ u_pc[u] = "created"
  /\ wait_on \in WaitOnChoices(u)
  /\ u_wait' = [u_wait EXCEPT ![u] = wait_on]
  /\ IF EventHasTriggeredAssert(wait_on) # "none"
     THEN fatal' = EventHasTriggeredAssert(wait_on) /\ UNCHANGED u_pc
     ELSE /\ u_pc' = [u_pc EXCEPT ![u] = IF EventHasTriggered(wait_on)[1] THEN "now" ELSE "defer"]
          /\ UNCHANGED fatal
  /\ UNCHANGED <<lev, u_cb, u_cbp, u_trigs>>
  /\ UserUnchanged

\* UserEvent::trigger: GenEventImpl::trigger(*this, false)
UserTriggerNow(u) ==
  /\ fatal = "none" /\ u_pc[u] = "now"
  /\ TriggerLocal(UserId(u), FALSE, u_cb)
  /\ u_trigs' = [u_trigs EXCEPT ![u] = Append(@, FALSE)]
  /\ u_pc' = [u_pc EXCEPT ![u] = "returned_now"]
  /\ UNCHANGED u_wait
  /\ UserUnchanged

\* UserEvent::trigger: EventImpl::add_waiter(wait_on, new DeferredEventTrigger(*this));
\* a wait_on triggered since the check calls event_triggered at once
UserTriggerDefer(u) ==
  /\ fatal = "none" /\ u_pc[u] = "defer"
  /\ LET e   == lev[u_wait[u]]
         now == AddWaiterNow(e, 1)
     IN IF now[1]
        THEN /\ u_cb' = [u_cb EXCEPT ![u] = "pending"]
             /\ u_cbp' = [u_cbp EXCEPT ![u] = now[2]]
             /\ u_pc' = [u_pc EXCEPT ![u] = "defer_cb"]
             /\ UNCHANGED lev
        ELSE /\ lev' = [lev EXCEPT ![u_wait[u]] =
                          AddWaiterState(e, TRUE, 1, DeferredEventTrigger(UserId(u)))]
             /\ u_pc' = [u_pc EXCEPT ![u] = "returned_deferred"]
             /\ UNCHANGED <<u_cb, u_cbp>>
  /\ UNCHANGED <<u_wait, u_trigs, fatal>>
  /\ UserUnchanged

\* add_waiter returns from the synchronous event_triggered call
UserTriggerReturn(u) ==
  /\ fatal = "none" /\ u_pc[u] = "defer_cb"
  /\ u_cb[u] = "done"
  /\ u_pc' = [u_pc EXCEPT ![u] = "returned_deferred"]
  /\ UNCHANGED <<lev, u_wait, u_cb, u_cbp, u_trigs, fatal>>
  /\ UserUnchanged

\* a deferred trigger that always triggers without poison
DeferredEventTriggered_DropsPoison(u) ==
  /\ fatal = "none" /\ u_cb[u] = "pending"
  /\ TriggerLocal(UserId(u), FALSE, [u_cb EXCEPT ![u] = "done"])
  /\ u_trigs' = [u_trigs EXCEPT ![u] = Append(@, FALSE)]
  /\ UNCHANGED <<u_pc, u_wait>>
  /\ UserUnchanged

\* DeferredEventTrigger::event_triggered(e, poisoned)
DeferredEventTriggered(u) ==
  /\ fatal = "none" /\ u_cb[u] = "pending"
  /\ TriggerLocal(UserId(u), u_cbp[u], [u_cb EXCEPT ![u] = "done"])
  /\ u_trigs' = [u_trigs EXCEPT ![u] = Append(@, u_cbp[u])]
  /\ UNCHANGED <<u_pc, u_wait>>
  /\ UserUnchanged

\* UserEvent::cancel
UserCancel(u) ==
  /\ fatal = "none" /\ u_pc[u] = "created"
  /\ TriggerLocal(UserId(u), TRUE, u_cb)
  /\ u_trigs' = [u_trigs EXCEPT ![u] = Append(@, TRUE)]
  /\ u_pc' = [u_pc EXCEPT ![u] = "cancelled"]
  /\ UNCHANGED u_wait
  /\ UserUnchanged

\* GenEventImpl::trigger(e, poisoned) on an event that is not a user event
TriggerWaitOn(e, poisoned) ==
  /\ fatal = "none"
  /\ lev[e].generation = 0
  /\ TriggerLocal(e, poisoned, u_cb)
  /\ UNCHANGED <<u_pc, u_wait, u_trigs>>
  /\ UserUnchanged

\* the merge_events call left out
MergeUnused ==
  /\ mg_set = {}
  /\ mg_ignore = FALSE
  /\ mg_pc = "idle"
  /\ mg_it = 0
  /\ mg_wait_count = 0
  /\ mg_first_wait = 0
  /\ mg_finish = 0
  /\ mg_result = -1
  /\ m_count = 0
  /\ m_faults = 0
  /\ cb_pc = <<>>
  /\ cb_poisoned = <<>>
  /\ cb_last = <<>>
  /\ f_trigs = <<>>

\* -------------------------------------------------------------- SpecUser
\* user events created, then triggered after a wait_on or cancelled, while the
\* other events of the node trigger (with or without poison) at any moment
InitUser ==
  /\ EventIdle
  /\ MergeUnused
  /\ BarrierIdle
  /\ fatal = "none"
  /\ lev = [i \in 1..(MaxWaitOn + MaxUsers) |-> InitImpl]
  /\ u_pc = [u \in Users |-> "new"]
  /\ u_wait = [u \in Users |-> 0]
  /\ u_cb = [u \in Users |-> "idle"]
  /\ u_cbp = [u \in Users |-> FALSE]
  /\ u_trigs = [u \in Users |-> <<>>]

NextUser ==
  \/ \E u \in Users : CreateUserEvent(u)
  \/ \E u \in Users, w \in 0..(MaxWaitOn + MaxUsers) : UserTriggerCheck(u, w)
  \/ \E u \in Users : UserTriggerNow(u)
  \/ \E u \in Users : UserTriggerDefer(u)
  \/ \E u \in Users : UserTriggerReturn(u)
  \/ \E u \in Users : DeferredEventTriggered(u)
  \/ \E u \in Users : UserCancel(u)
  \/ \E e \in WaitOns, p \in BOOLEAN : TriggerWaitOn(e, p)

SpecUser == InitUser /\ [][NextUser]_vars

\* ------------------------------------------------ claims on user events
\* C9: after u.trigger(e1) found e1 untriggered, u is not triggered while e1
\* is untriggered; once e1 has triggered, the deferred trigger is called, and
\* after it u is triggered exactly once, with the poison of e1.
C9_DeferredUserTrigger ==
  \A u \in Users :
    u_pc[u] \in {"defer", "defer_cb", "returned_deferred"} =>
      LET e1 == EventHasTriggered(u_wait[u])
          ue == EventHasTriggered(UserId(u))
      IN /\ ~e1[1] => (~ue[1] /\ u_trigs[u] = <<>>)
         /\ (u_pc[u] = "returned_deferred" /\ e1[1]) => u_cb[u] \in {"pending", "done"}
         /\ u_cb[u] = "done" => (ue = e1 /\ u_trigs[u] = <<e1[2]>>)

C9_Witness ==
  \E u \in Users :
    /\ u_pc[u] = "returned_deferred" /\ u_cb[u] = "done"
    /\ u_wait[u] \in WaitOns
    /\ EventHasTriggered(u_wait[u]) = <<TRUE, TRUE>>
    /\ EventHasTriggered(UserId(u)) = <<TRUE, TRUE>>

\* C10: u.trigger(wait_on) with wait_on already triggered, with or without
\* poison, raises no fatal error and has triggered u when it returns.
C10_ImmediateUserTrigger ==
  /\ fatal # "Event::has_triggered: poisoned == POISON_FIXME"
  /\ \A u \in Users : u_pc[u] = "returned_now" => EventHasTriggered(UserId(u))[1]


\* ------------------------------------------------------------- barriers
\* highest barrier generation that is arrived at, waited for or queried
MaxBarGen   == 3
\* largest base_arrival_count given to create_barrier
MaxArrivals == 2
\* alter_arrival_count calls made on one node
MaxAlters   == 2
\* highest generation whose arrival count is altered
MaxAltGen   == 1
\* largest reduce value an arrival carries
MaxValue    == 2
\* highest generation of the barrier with a reduction that is arrived at or queried
MaxRedGen   == 2
\* arrivals issued with a wait_on event
MaxDeferred == 2

BGens  == 1..MaxBarGen
RGens  == 1..MaxRedGen
AGens  == 1..MaxAltGen
Values == 1..MaxValue
Deferred == 1..MaxDeferred

\* reduce_value_size == 0: the arrival carries no reduce value
NoValue == 0
\* the initial_value given to create_barrier
initial_value == 0
\* a slot of final_values that realloc added and nothing has written yet
Uninit == -1
\* what a read of such a slot can yield
ResultValues == 0..(MaxArrivals * MaxValue)
\* timestamp 0 of a Barrier handle; other timestamps are <<origin node, counter>>
NoTs == <<"none", 0>>

\* redop->apply(lhs, rhs): the sum reduction
RedopApply(lhs, rhs) == lhs + rhs

\* PerNodeUpdates as found by pernode.find(node), or as created
NoPerNode == [known |-> FALSE, last_ts |-> 0, pending |-> {}]

\* BarrierImpl::Generation::Generation
NewGeneration ==
  [present |-> TRUE, unguarded_delta |-> 0, local_waiters |-> <<>>,
   pernode |-> [n \in Nodes |-> NoPerNode]]

\* no entry in the generations map
NoGeneration == [NewGeneration EXCEPT !.present = FALSE]

\* BarrierImpl::init
BarInit ==
  [generation |-> 0, gen_subscribed |-> 0, first_generation |-> 0,
   generations |-> [g \in BGens |-> NoGeneration],
   held_triggers |-> {}, redop |-> FALSE, final_values |-> <<>>]

RECURSIVE SumDeltas(_)
SumDeltas(S) ==
  IF S = {} THEN 0
  ELSE LET p == CHOOSE x \in S : TRUE IN p[2] + SumDeltas(S \ {p})

\* as ApplyNow, for an owner that holds no decrement back
ApplyNow_Always(ts, last_ts) == TRUE

\* whether a delta <= 0 with timestamp ts is late enough to be applied at
\* once: ts <= pn->last_ts, both of the same origin node
ApplyNow(ts, last_ts) == ts[2] <= last_ts

\* the <<timestamp, delta, held>> that handle_adjustment(ts, delta) adds to
\* unguarded_delta: the delta itself or none, and the pending ones it releases
AppliedBy(gn, ts, delta) ==
  IF ts = NoTs THEN SetToBag({<<ts, delta, FALSE>>})
  ELSE LET pn == gn.pernode[ts[1]]
       IN IF delta > 0
          THEN SetToBag({<<ts, delta, FALSE>>})
               (+) SetToBag({<<<<ts[1], p[1]>>, p[2], TRUE>> : p \in {q \in pn.pending : q[1] <= ts[2]}})
          ELSE IF ApplyNow(ts, pn.last_ts) THEN SetToBag({<<ts, delta, FALSE>>})
          ELSE EmptyBag

\* BarrierImpl::Generation::handle_adjustment(ts, delta); pending holds <<counter, delta>>
handle_adjustment(gn, ts, delta) ==
  IF ts = NoTs
  THEN [gn EXCEPT !.unguarded_delta = @ + delta]
  ELSE LET node == ts[1]
           pn   == gn.pernode[node]
       IN IF delta > 0
          THEN LET due == {p \in pn.pending : p[1] <= ts[2]}
               IN [gn EXCEPT !.unguarded_delta = @ + delta + SumDeltas(due),
                             !.pernode[node] = [known |-> TRUE, last_ts |-> ts[2],
                                                pending |-> pn.pending \ due]]
          ELSE IF ApplyNow(ts, pn.last_ts)
          THEN [gn EXCEPT !.unguarded_delta = @ + delta,
                          !.pernode[node] = [pn EXCEPT !.known = TRUE]]
          ELSE LET old == {p \in pn.pending : p[1] = ts[2]}
                   sum == delta + SumDeltas(old)
               IN [gn EXCEPT !.pernode[node] =
                     [known |-> TRUE, last_ts |-> pn.last_ts,
                      pending |-> (pn.pending \ old) \cup {<<ts[2], sum>>}]]

\* a drain loop that stops after one generation
DrainTo_One(generation, gens, base) ==
  IF /\ generation < MaxBarGen
     /\ gens[generation + 1].present /\ base + gens[generation + 1].unguarded_delta = 0
  THEN generation + 1 ELSE generation

\* the generation the owner's drain loop stops at: every generation from
\* generation + 1 up to it is tracked and has base_arrival_count + unguarded_delta = 0
DrainTo(generation, gens, base) ==
  LET ok(G) == \A k \in (generation + 1)..G :
                 gens[k].present /\ base + gens[k].unguarded_delta = 0
  IN CHOOSE G \in generation..MaxBarGen : ok(G) /\ (G = MaxBarGen \/ ~ok(G + 1))

\* as Harvest, without the test that stops at the generation triggered
RECURSIVE Harvest_NoBreak(_, _, _)
Harvest_NoBreak(gens, lo, hi) ==
  IF lo >= MaxBarGen THEN <<>>
  ELSE (IF gens[lo + 1].present THEN gens[lo + 1].local_waiters ELSE <<>>)
       \o Harvest_NoBreak(gens, lo + 1, hi)

\* local_waiters of the tracked generations lo+1..hi, in generation order
RECURSIVE Harvest(_, _, _)
Harvest(gens, lo, hi) ==
  IF lo >= hi THEN <<>>
  ELSE (IF gens[lo + 1].present THEN gens[lo + 1].local_waiters ELSE <<>>)
       \o Harvest(gens, lo + 1, hi)

\* final_values grown to rel_gen slots, the new ones holding fill
RECURSIVE Grow(_, _, _)
Grow(fv, rel_gen, fill) ==
  IF Len(fv) >= rel_gen THEN fv ELSE Grow(Append(fv, fill), rel_gen, fill)

\* bytedup of the slots of generations previous_gen+1..trigger_gen
Snapshot(fv, first_generation, previous_gen, trigger_gen) ==
  [i \in 1..(trigger_gen - previous_gen) |->
     LET slot == previous_gen + i - first_generation
     IN IF slot \in 1..Len(fv) THEN fv[slot] ELSE Uninit]

\* wait_on tells the event attached from NO_EVENT; arr names the arrival the
\* message stands for when it was given a wait_on, 0 otherwise
BarAdjustMsg(gen, delta, ts, value, wait_on, arr) ==
  [type |-> "BarrierAdjust", gen |-> gen, delta |-> delta, ts |-> ts, value |-> value,
   wait_on |-> wait_on, arr |-> arr]

BarSubscribeMsg(subscribe_gen) ==
  [type |-> "BarrierSubscribe", subscribe_gen |-> subscribe_gen]

BarTriggerMsg(trigger_gen, previous_gen, first_generation, data) ==
  [type |-> "BarrierTrigger", trigger_gen |-> trigger_gen, previous_gen |-> previous_gen,
   first_generation |-> first_generation, data |-> data]

\* event_triggered(b, POISON_FIXME) for each waiter of ws; was and now are the
\* node's generation before and after the call that notifies, queued tells a waiter taken from local_waiters from one that
\* add_waiter fires at once, pos is its place in local_notifications
BarNotify(fired, ws, bgen, was, now, queued) ==
  [k \in WaiterIds |->
     IF k \in SeqToSet(ws)
     THEN Append(fired[k], [gen |-> bgen, was |-> was, generation |-> now, queued |-> queued,
                            pos |-> CHOOSE i \in 1..Len(ws) : ws[i] = k])
     ELSE fired[k]]

\* BarrierImpl::adjust_arrival on the owner, from the mutex on; net0 is the
\* bag of messages the sends are added to
OwnerAdjustArrival(barrier_gen, delta, ts, value, net0) ==
  LET e       == bar["owner"]
      tracked == IF e.generations[barrier_gen].present
                 THEN e.generations[barrier_gen] ELSE NewGeneration
      gens1   == [e.generations EXCEPT ![barrier_gen] = handle_adjustment(tracked, ts, delta)]
      G       == IF barrier_gen = e.generation + 1
                 THEN DrainTo(e.generation, gens1, b_base) ELSE e.generation
      trig    == G > e.generation
      woken   == Harvest(gens1, e.generation, G)
      gens2   == [g \in BGens |-> IF g <= G THEN NoGeneration ELSE gens1[g]]
      notify  == trig /\ b_sub # 0
      rn_trig == IF b_sub <= G THEN b_sub ELSE G
      rn_prev == IF b_rtg = -1 THEN e.first_generation ELSE b_rtg
      rel_gen == barrier_gen - e.first_generation
      fv1     == Grow(e.final_values, rel_gen, initial_value)
      fv      == IF value = NoValue THEN e.final_values
                 ELSE [fv1 EXCEPT ![rel_gen] = RedopApply(@, value)]
      data    == IF e.redop THEN Snapshot(fv, e.first_generation, rn_prev, rn_trig) ELSE <<>>
      why     == IF ~(barrier_gen > e.generation)
                 THEN "adjust_arrival: barrier_gen > generation"
                 ELSE IF value # NoValue /\ ~e.redop
                 THEN "adjust_arrival: redop != 0"
                 ELSE "none"
  IN IF why # "none"
     THEN /\ fatal' = why
          /\ b_net' = net0
          /\ UNCHANGED <<bar, b_sub, b_rtg, b_applied, b_hist, b_trigd, bw_fired>>
     ELSE /\ bar' = [bar EXCEPT !["owner"] =
                       [e EXCEPT !.generation = G, !.generations = gens2, !.final_values = fv]]
          /\ b_sub' = IF notify /\ b_sub <= G THEN 0 ELSE b_sub
          /\ b_rtg' = IF notify THEN rn_trig ELSE b_rtg
          /\ b_net' = IF notify
                      THEN net0 (+) SetToBag({BarTriggerMsg(rn_trig, rn_prev, e.first_generation, data)})
                      ELSE net0
          /\ b_applied' = IF value = NoValue THEN b_applied
                          ELSE [b_applied EXCEPT ![barrier_gen] = @ (+) SetToBag({value})]
          /\ b_hist' = [b_hist EXCEPT ![barrier_gen] = @ (+) AppliedBy(tracked, ts, delta)]
          /\ b_trigd' = b_trigd \cup ((e.generation + 1)..G)
          /\ bw_fired' = BarNotify(bw_fired, woken, G, e.generation, G, TRUE)
          /\ UNCHANGED fatal

\* the event world, the merge_events call and the user events take no step
BarUnchanged == UNCHANGED <<evVars, mgVars, usVars, dfVars>>

\* Barrier::arrive(1, NO_EVENT, value) on node n for generation g: adjust_arrival
\* on the owner, BarrierAdjustMessage to the owner elsewhere
BarArrive(n, g, value) ==
  /\ fatal = "none"
  /\ b_issued[g] < b_base
  /\ value \in (IF b_redop THEN Values \cup {NoValue} ELSE {NoValue})
  /\ b_issued' = [b_issued EXCEPT ![g] = @ + 1]
  /\ IF n = "owner"
     THEN OwnerAdjustArrival(g, -1, NoTs, value, b_net)
     ELSE /\ b_net' = b_net (+) SetToBag({BarAdjustMsg(g, -1, NoTs, value, FALSE, 0)})
          /\ UNCHANGED <<bar, b_sub, b_rtg, b_applied, b_hist, b_trigd, bw_fired, fatal>>
  /\ UNCHANGED <<b_base, b_redop, b_ts, b_handles, bw_node, bw_gen, b_res>>
  /\ BarUnchanged

\* Barrier::alter_arrival_count(delta) on node n for generation g: a fresh
\* timestamp of node n, then adjust_arrival; the handle returned carries it
BarAlter(n, g, delta) ==
  /\ fatal = "none"
  /\ b_ts[n] <= MaxAlters
  /\ LET ts == <<n, b_ts[n]>>
     IN /\ b_ts' = [b_ts EXCEPT ![n] = @ + 1]
        /\ b_handles' = b_handles \cup {<<g, ts>>}
        /\ IF n = "owner"
           THEN OwnerAdjustArrival(g, delta, ts, NoValue, b_net)
           ELSE /\ b_net' = b_net (+) SetToBag({BarAdjustMsg(g, delta, ts, NoValue, FALSE, 0)})
                /\ UNCHANGED <<bar, b_sub, b_rtg, b_applied, b_hist, b_trigd, bw_fired, fatal>>
  /\ UNCHANGED <<b_base, b_redop, b_issued, bw_node, bw_gen, b_res>>
  /\ BarUnchanged

\* Barrier::arrive(1) on node n through a handle alter_arrival_count returned,
\* on whatever node: the arrival carries the handle's timestamp
BarArriveOn(n, h) ==
  /\ fatal = "none"
  /\ h \in b_handles
  /\ b_handles' = b_handles \ {h}
  /\ IF n = "owner"
     THEN OwnerAdjustArrival(h[1], -1, h[2], NoValue, b_net)
     ELSE /\ b_net' = b_net (+) SetToBag({BarAdjustMsg(h[1], -1, h[2], NoValue, FALSE, 0)})
          /\ UNCHANGED <<bar, b_sub, b_rtg, b_applied, b_hist, b_trigd, bw_fired, fatal>>
  /\ UNCHANGED <<b_base, b_redop, b_issued, b_ts, bw_node, bw_gen, b_res>>
  /\ BarUnchanged

\* a wait_on that always counts as triggered
WaitOnHasTriggered_Always(n, wait_on) == TRUE

\* Event::has_triggered of the wait_on event on node n (NO_EVENT has always
\* triggered): the answer, and the assertion a poisoned wait_on fails
WaitOnHasTriggered(n, wait_on) == ~wait_on \/ wo[n] # "no"

WaitOnAssert(n, wait_on) ==
  IF wait_on /\ wo[n] = "poisoned"
  THEN "Event::has_triggered: poisoned == POISON_FIXME" ELSE "none"

\* the arrival arr went on towards the count after node n answered ans
Via(arr, n, ans) ==
  IF arr = 0 THEN d_via ELSE [d_via EXCEPT ![arr] = Append(@, <<n, ans>>)]

\* BarrierAdjustMessage::handle_request on the owner: adjust_arrival with the
\* wait_on of the message, which defers the arrival again when wait_on has
\* not triggered on the owner
BarHandleAdjust ==
  \E m \in BagToSet(b_net) :
  /\ fatal = "none"
  /\ m.type = "BarrierAdjust"
  /\ IF WaitOnAssert("owner", m.wait_on) # "none"
     THEN /\ fatal' = WaitOnAssert("owner", m.wait_on)
          /\ b_net' = b_net (-) SetToBag({m})
          /\ UNCHANGED <<bar, b_sub, b_rtg, b_applied, b_hist, b_trigd, bw_fired, d_pc, d_via>>
     ELSE IF ~WaitOnHasTriggered("owner", m.wait_on)
     THEN /\ d_pc' = [d_pc EXCEPT ![m.arr] = "checked"]
          /\ d_via' = Via(m.arr, "owner", FALSE)
          /\ b_net' = b_net (-) SetToBag({m})
          /\ UNCHANGED <<bar, b_sub, b_rtg, b_applied, b_hist, b_trigd, bw_fired, fatal>>
     ELSE /\ OwnerAdjustArrival(m.gen, m.delta, m.ts, m.value, b_net (-) SetToBag({m}))
          /\ d_pc' = IF m.arr = 0 \/ fatal' # "none" THEN d_pc
                     ELSE [d_pc EXCEPT ![m.arr] = "applied"]
          /\ d_via' = IF m.wait_on THEN Via(m.arr, "owner", TRUE) ELSE d_via
  /\ UNCHANGED <<b_base, b_redop, b_issued, b_ts, b_handles, bw_node, bw_gen, b_res>>
  /\ UNCHANGED <<evVars, mgVars, usVars, wo, d_gen>>

\* Barrier::arrive(1, wait_on) on node n for generation g, as arrival a:
\* adjust_arrival defers it while wait_on has not triggered on n, on the
\* owner by a waiter on wait_on, elsewhere by forwarding it with wait_on
BarArriveAfter(n, a, g) ==
  /\ fatal = "none"
  /\ d_pc[a] = "new"
  /\ b_issued[g] < b_base
  /\ b_issued' = [b_issued EXCEPT ![g] = @ + 1]
  /\ d_gen' = [d_gen EXCEPT ![a] = g]
  /\ IF WaitOnAssert(n, TRUE) # "none"
     THEN /\ fatal' = WaitOnAssert(n, TRUE)
          /\ UNCHANGED <<bar, b_sub, b_rtg, b_net, b_applied, b_hist, b_trigd, bw_fired, d_pc, d_via>>
     ELSE IF ~WaitOnHasTriggered(n, TRUE)
     THEN /\ d_via' = Via(a, n, FALSE)
          /\ IF n = "owner"
             THEN /\ d_pc' = [d_pc EXCEPT ![a] = "checked"]
                  /\ UNCHANGED b_net
             ELSE /\ d_pc' = [d_pc EXCEPT ![a] = "forwarded"]
                  /\ b_net' = b_net (+) SetToBag({BarAdjustMsg(g, -1, NoTs, NoValue, TRUE, a)})
          /\ UNCHANGED <<bar, b_sub, b_rtg, b_applied, b_hist, b_trigd, bw_fired, fatal>>
     ELSE /\ d_via' = Via(a, n, TRUE)
          /\ IF n = "owner"
             THEN /\ OwnerAdjustArrival(g, -1, NoTs, NoValue, b_net)
                  /\ d_pc' = IF fatal' # "none" THEN d_pc ELSE [d_pc EXCEPT ![a] = "applied"]
             ELSE /\ d_pc' = [d_pc EXCEPT ![a] = "sent"]
                  /\ b_net' = b_net (+) SetToBag({BarAdjustMsg(g, -1, NoTs, NoValue, FALSE, a)})
                  /\ UNCHANGED <<bar, b_sub, b_rtg, b_applied, b_hist, b_trigd, bw_fired, fatal>>
  /\ UNCHANGED <<b_base, b_redop, b_ts, b_handles, bw_node, bw_gen, b_res, wo>>
  /\ UNCHANGED <<evVars, mgVars, usVars>>

\* adjust_arrival on the owner, after wait_on was found untriggered:
\* EventImpl::add_waiter(wait_on, new DeferredBarrierArrival); a wait_on that
\* has triggered since calls event_triggered at once
BarDeferAddWaiter(a) ==
  /\ fatal = "none"
  /\ d_pc[a] = "checked"
  /\ d_pc' = [d_pc EXCEPT ![a] = IF wo["owner"] = "no" THEN "queued" ELSE "woken"]
  /\ UNCHANGED <<bar, b_sub, b_rtg, b_base, b_redop, b_net, b_issued, b_applied, b_hist,
                 b_ts, b_handles, b_trigd, bw_node, bw_gen, bw_fired, b_res, wo, d_gen, d_via, fatal>>
  /\ UNCHANGED <<evVars, mgVars, usVars>>

\* the generation of wait_on becomes triggered on node n, by a trigger there
\* or by the Update of its owner; on the barrier's owner the waiters queued
\* on it are woken
WaitOnTriggered(n, poisoned) ==
  /\ fatal = "none"
  /\ wo[n] = "no"
  /\ \A m \in Nodes : wo[m] \in {"no", PoisonTag(poisoned)}
  /\ wo' = [wo EXCEPT ![n] = PoisonTag(poisoned)]
  /\ d_pc' = [a \in Deferred |->
               IF n = "owner" /\ d_pc[a] = "queued" THEN "woken" ELSE d_pc[a]]
  /\ UNCHANGED <<bar, b_sub, b_rtg, b_base, b_redop, b_net, b_issued, b_applied, b_hist,
                 b_ts, b_handles, b_trigd, bw_node, bw_gen, bw_fired, b_res, d_gen, d_via, fatal>>
  /\ UNCHANGED <<evVars, mgVars, usVars>>

\* DeferredBarrierArrival::event_triggered(e, poisoned) on the owner
DeferredBarrierArrivalTriggered(a) ==
  /\ fatal = "none"
  /\ d_pc[a] = "woken"
  /\ IF (wo["owner"] = "poisoned") # POISON_FIXME
     THEN /\ fatal' = "DeferredBarrierArrival::event_triggered: poisoned == POISON_FIXME"
          /\ UNCHANGED <<bar, b_sub, b_rtg, b_net, b_applied, b_hist, b_trigd, bw_fired, d_pc, d_via>>
     ELSE /\ OwnerAdjustArrival(d_gen[a], -1, NoTs, NoValue, b_net)
          /\ d_pc' = IF fatal' # "none" THEN d_pc ELSE [d_pc EXCEPT ![a] = "applied"]
          /\ d_via' = Via(a, "owner", wo["owner"] # "no")
  /\ UNCHANGED <<b_base, b_redop, b_issued, b_ts, b_handles, bw_node, bw_gen, b_res, wo, d_gen>>
  /\ UNCHANGED <<evVars, mgVars, usVars>>

\* a has_triggered that subscribes without looking at gen_subscribed
BarHasTriggered_Resubscribes(n, needed_gen) ==
  /\ fatal = "none"
  /\ IF needed_gen <= bar[n].generation \/ n = "owner"
     THEN UNCHANGED <<bar, b_net>>
     ELSE /\ bar' = [bar EXCEPT ![n].gen_subscribed = needed_gen]
          /\ b_net' = b_net (+) SetToBag({BarSubscribeMsg(needed_gen)})
  /\ UNCHANGED <<b_sub, b_rtg, b_base, b_redop, b_issued, b_applied, b_trigd,
                 b_hist, b_ts, b_handles, bw_node, bw_gen, bw_fired, b_res, fatal>>
  /\ BarUnchanged

\* BarrierImpl::has_triggered(needed_gen) on node n
BarHasTriggered(n, needed_gen) ==
  /\ fatal = "none"
  /\ LET e == bar[n]
     IN IF needed_gen <= e.generation \/ n = "owner" \/ ~(e.gen_subscribed < needed_gen)
        THEN UNCHANGED <<bar, b_net>>
        ELSE /\ bar' = [bar EXCEPT ![n].gen_subscribed = needed_gen]
             /\ b_net' = b_net (+) SetToBag({BarSubscribeMsg(needed_gen)})
  /\ UNCHANGED <<b_sub, b_rtg, b_base, b_redop, b_issued, b_applied, b_trigd,
                 b_hist, b_ts, b_handles, bw_node, bw_gen, bw_fired, b_res, fatal>>
  /\ BarUnchanged

\* BarrierImpl::add_waiter(needed_gen, waiter k) on node n; the callers
\* (Event::wait, EventMerger::add_event, UserEvent::trigger, adjust_arrival)
\* come here after has_triggered(needed_gen) answered false on this node
BarAddWaiter(n, k, needed_gen) ==
  /\ fatal = "none"
  /\ n = "owner" \/ bar[n].gen_subscribed >= needed_gen
  /\ bw_gen[k] = 0
  /\ \A j \in WaiterIds : j < k => bw_gen[j] # 0
  /\ LET e == bar[n]
         tracked == IF e.generations[needed_gen].present
                    THEN e.generations[needed_gen] ELSE NewGeneration
     IN IF needed_gen > e.generation
        THEN IF ~(n = "owner" \/ e.gen_subscribed >= needed_gen)
             THEN /\ fatal' = "add_waiter: owner == gasnet_mynode() || gen_subscribed >= needed_gen"
                  /\ UNCHANGED <<bar, bw_node, bw_gen, bw_fired>>
             ELSE /\ bar' = [bar EXCEPT ![n].generations[needed_gen] =
                               [tracked EXCEPT !.local_waiters = Append(@, k)]]
                  /\ bw_node' = [bw_node EXCEPT ![k] = n]
                  /\ bw_gen' = [bw_gen EXCEPT ![k] = needed_gen]
                  /\ UNCHANGED <<bw_fired, fatal>>
        ELSE /\ bw_node' = [bw_node EXCEPT ![k] = n]
             /\ bw_gen' = [bw_gen EXCEPT ![k] = needed_gen]
             /\ bw_fired' = BarNotify(bw_fired, <<k>>, needed_gen, e.generation, e.generation, FALSE)
             /\ UNCHANGED <<bar, fatal>>
  /\ UNCHANGED <<b_sub, b_rtg, b_base, b_redop, b_net, b_issued, b_applied, b_trigd, b_res,
                 b_hist, b_ts, b_handles>>
  /\ BarUnchanged

\* as SubscribeSends, for an owner that answers no subscription
SubscribeSends_Never(already, generation, first_generation, rtg) == FALSE

\* as SubscribeSends, for an owner that answers every new subscription
SubscribeSends_Again(already, generation, first_generation, rtg) ==
  ~already /\ generation > first_generation

\* whether the Subscribe handler answers with a BarrierTrigger: the
\* subscription is new, a generation has triggered and the node was not told
\* of it; rtg is remote_trigger_gens[node], -1 when there is none
SubscribeSends(already, generation, first_generation, rtg) ==
  /\ ~already /\ generation > first_generation
  /\ (rtg = -1 \/ rtg < generation)

\* a handler that records the subscription whatever the generation
SubscribeGen_Always(sub, subscribe_gen, generation) ==
  IF sub # 0 /\ sub >= subscribe_gen THEN sub ELSE subscribe_gen

\* remote_subscribe_gens[node] after the handler looked at it; sub is the
\* entry found, 0 when there is none
SubscribeGen(sub, subscribe_gen, generation) ==
  IF sub # 0
  THEN (IF sub >= subscribe_gen THEN sub ELSE subscribe_gen)
  ELSE (IF subscribe_gen > generation THEN subscribe_gen ELSE 0)

\* BarrierSubscribeMessage::handle_request on the owner
BarHandleSubscribe ==
  \E m \in BagToSet(b_net) :
  /\ fatal = "none"
  /\ m.type = "BarrierSubscribe"
  /\ LET e       == bar["owner"]
         net0    == b_net (-) SetToBag({m})
         already == b_sub # 0 /\ b_sub >= m.subscribe_gen
         sub1    == SubscribeGen(b_sub, m.subscribe_gen, e.generation)
         send    == SubscribeSends(already, e.generation, e.first_generation, b_rtg)
         prev    == IF b_rtg = -1 THEN e.first_generation ELSE b_rtg
         data    == IF e.redop THEN Snapshot(e.final_values, e.first_generation, prev, e.generation)
                    ELSE <<>>
         why     == IF ~(m.subscribe_gen > e.first_generation)
                    THEN "BarrierSubscribeMessage: subscribe_gen > first_generation"
                    ELSE IF b_sub # 0 /\ ~(b_sub > e.generation)
                    THEN "BarrierSubscribeMessage: it->second > generation"
                    ELSE "none"
     IN IF why # "none"
        THEN fatal' = why /\ b_net' = net0 /\ UNCHANGED <<b_sub, b_rtg>>
        ELSE /\ b_sub' = sub1
             /\ b_rtg' = IF send THEN e.generation ELSE b_rtg
             /\ b_net' = IF send
                         THEN net0 (+) SetToBag({BarTriggerMsg(e.generation, prev, e.first_generation, data)})
                         ELSE net0
             /\ UNCHANGED fatal
  /\ UNCHANGED <<bar, b_base, b_redop, b_issued, b_applied, b_trigd,
                 b_hist, b_ts, b_handles, bw_node, bw_gen, bw_fired, b_res>>
  /\ BarUnchanged

\* the held trigger with the smallest previous_gen: held_triggers.begin()
HeldBegin(held) == CHOOSE p \in held : \A q \in held : p[1] <= q[1]

\* as Collapse, for a handler that absorbs no held trigger
Collapse_None(held, trigger_gen) == <<trigger_gen, held>>

\* the loop that absorbs held triggers: <<final trigger_gen, held triggers left>>
RECURSIVE Collapse(_, _)
Collapse(held, trigger_gen) ==
  IF held = {} \/ HeldBegin(held)[1] # trigger_gen
  THEN <<trigger_gen, held>>
  ELSE Collapse(held \ {HeldBegin(held)}, HeldBegin(held)[2])

\* memcpy(final_values + (rel_gen - 1) * sizeof_lhs, data, datalen), the part
\* of it that lands inside the rel_gen slots allocated
StoreData(fv, rel_gen, data) ==
  [i \in 1..Len(fv) |->
     IF i >= rel_gen /\ i - rel_gen + 1 <= Len(data) THEN data[i - rel_gen + 1] ELSE fv[i]]

\* a handler that takes every trigger for the oldest possible range
TriggerContiguous_Always(previous_gen, generation) == TRUE

\* if(args.previous_gen == impl->generation)
TriggerContiguous(previous_gen, generation) == previous_gen = generation

\* BarrierTriggerMessage::handle_request on the non-owner; a memcpy that runs
\* past the allocation either goes unnoticed or brings the process down
BarHandleTrigger ==
  \E m \in BagToSet(b_net) :
  /\ fatal = "none"
  /\ m.type = "BarrierTrigger"
  /\ b_net' = b_net (-) SetToBag({m})
  /\ LET e       == bar["remote"]
         contig  == TriggerContiguous(m.previous_gen, e.generation)
         col     == Collapse(e.held_triggers, m.trigger_gen)
         tg      == IF contig THEN col[1] ELSE m.trigger_gen
         held    == IF contig THEN col[2]
                    ELSE {p \in e.held_triggers : p[1] # m.previous_gen}
                           \cup {<<m.previous_gen, m.trigger_gen>>}
         woken   == IF contig THEN Harvest(e.generations, 0, tg) ELSE <<>>
         gens    == IF contig
                    THEN [g \in BGens |-> IF g <= tg THEN NoGeneration ELSE e.generations[g]]
                    ELSE e.generations
         rel_gen == tg - m.first_generation
         fv      == IF m.data = <<>> THEN e.final_values
                    ELSE StoreData(Grow(e.final_values, rel_gen, Uninit), rel_gen, m.data)
         why     == IF m.data # <<>> /\ Len(m.data) # tg - m.previous_gen
                    THEN "BarrierTriggerMessage: datalen == sizeof_lhs * (trigger_gen - previous_gen)"
                    ELSE "none"
         e2      == [e EXCEPT !.generation = IF contig THEN tg ELSE @,
                              !.held_triggers = held,
                              !.generations = gens,
                              !.redop = IF m.data # <<>> THEN TRUE ELSE @,
                              !.first_generation = IF m.data # <<>> THEN m.first_generation ELSE @,
                              !.final_values = fv]
     IN IF why # "none"
        THEN fatal' = why /\ UNCHANGED <<bar, bw_fired>>
        ELSE \E crash \in BOOLEAN :
               IF crash /\ Len(m.data) > 1
               THEN /\ fatal' = "BarrierTriggerMessage: memcpy past the end of final_values"
                    /\ UNCHANGED <<bar, bw_fired>>
               ELSE /\ bar' = [bar EXCEPT !["remote"] = e2]
                    /\ bw_fired' = BarNotify(bw_fired, woken, m.trigger_gen, e.generation, e2.generation, TRUE)
                    /\ UNCHANGED fatal
  /\ UNCHANGED <<b_sub, b_rtg, b_base, b_redop, b_issued, b_applied, b_trigd,
                 b_hist, b_ts, b_handles, bw_node, bw_gen, b_res>>
  /\ BarUnchanged

\* as NotYetTriggered, for a get_result that never refuses
NotYetTriggered_Never(result_gen, generation) == FALSE

\* get_result's test "generation hasn't triggered yet?"
NotYetTriggered(result_gen, generation) == result_gen > generation

\* as ResultSlot, taking the slot of the generation after
ResultSlot_Next(result_gen, first_generation) == result_gen - first_generation + 1

\* rel_gen of get_result: the slot of final_values that holds result_gen
ResultSlot(result_gen, first_generation) == result_gen - first_generation

\* BarrierImpl::get_result(result_gen, value, value_size) on node n; buf is
\* the caller's buffer, kept from call to call
BarGetResult(n, result_gen) ==
  /\ fatal = "none"
  /\ LET e       == bar[n]
         rel_gen == ResultSlot(result_gen, e.first_generation)
     IN IF NotYetTriggered(result_gen, e.generation)
        THEN /\ b_res' = [node |-> n, gen |-> result_gen, ret |-> FALSE, buf |-> b_res.buf]
             /\ UNCHANGED fatal
        ELSE IF ~(rel_gen > 0)
        THEN fatal' = "get_result: rel_gen > 0" /\ UNCHANGED b_res
        ELSE IF ~(rel_gen <= Len(e.final_values))
        THEN fatal' = "get_result: rel_gen <= value_capacity" /\ UNCHANGED b_res
        ELSE IF ~e.redop
        THEN fatal' = "get_result: redop != 0" /\ UNCHANGED b_res
        ELSE /\ \E v \in (IF e.final_values[rel_gen] = Uninit
                          THEN ResultValues ELSE {e.final_values[rel_gen]}) :
                  b_res' = [node |-> n, gen |-> result_gen, ret |-> TRUE, buf |-> v]
             /\ UNCHANGED fatal
  /\ UNCHANGED <<bar, b_sub, b_rtg, b_base, b_redop, b_net, b_issued, b_applied, b_trigd,
                 b_hist, b_ts, b_handles, bw_node, bw_gen, bw_fired>>
  /\ BarUnchanged

\* ----------------------------------------------------------- SpecBarrier
\* the state create_barrier(base, redop) leaves on the owner, nothing sent
BarrierCreated(redop) ==
  /\ fatal = "none"
  /\ b_base \in 1..MaxArrivals
  /\ b_redop = redop
  /\ bar = [n \in Nodes |-> IF n = "owner" THEN [BarInit EXCEPT !.redop = b_redop] ELSE BarInit]
  /\ b_sub = 0
  /\ b_rtg = -1
  /\ b_net = EmptyBag
  /\ b_issued = [g \in BGens |-> 0]
  /\ b_applied = [g \in BGens |-> EmptyBag]
  /\ b_hist = [g \in BGens |-> EmptyBag]
  /\ b_ts = [n \in Nodes |-> 1]
  /\ b_handles = {}
  /\ b_trigd = {}
  /\ bw_node = [k \in WaiterIds |-> "owner"]
  /\ bw_gen = [k \in WaiterIds |-> 0]
  /\ bw_fired = [k \in WaiterIds |-> <<>>]
  /\ b_res = [node |-> "owner", gen |-> 0, ret |-> FALSE, buf |-> Uninit]
  /\ wo = [n \in Nodes |-> "no"]
  /\ d_pc = [a \in Deferred |-> "new"]
  /\ d_gen = [a \in Deferred |-> 0]
  /\ d_via = [a \in Deferred |-> <<>>]

\* a barrier without reduction: arrivals, queries and waiters on both nodes,
\* the messages delivered in any order
InitBarrier ==
  /\ EventIdle
  /\ MergeIdle
  /\ UserIdle
  /\ BarrierCreated(FALSE)

NextBarrier ==
  \/ \E n \in Nodes, g \in BGens : BarArrive(n, g, NoValue)
  \/ BarHandleAdjust
  \/ \E n \in Nodes, g \in BGens : BarHasTriggered(n, g)
  \/ \E n \in Nodes, k \in WaiterIds, g \in BGens : BarAddWaiter(n, k, g)
  \/ BarHandleSubscribe
  \/ BarHandleTrigger

SpecBarrier == InitBarrier /\ [][NextBarrier]_vars

\* ------------------------------------------------------------ SpecArrive
\* the same barrier with no waiter registered, every message sent is handled
NextArrive ==
  \/ \E n \in Nodes, g \in BGens : BarArrive(n, g, NoValue)
  \/ BarHandleAdjust
  \/ \E n \in Nodes, g \in BGens : BarHasTriggered(n, g)
  \/ BarHandleSubscribe
  \/ BarHandleTrigger

SpecArrive ==
  /\ InitBarrier
  /\ [][NextArrive]_vars
  /\ WF_vars(BarHandleAdjust)
  /\ WF_vars(BarHandleSubscribe)
  /\ WF_vars(BarHandleTrigger)

\* ------------------------------------------------------------ SpecAdjust
\* arrival counts altered on both nodes, arrivals through the handles returned
\* and through the barrier's first handle, the adjustments reaching the owner
\* in any order
NextAdjust ==
  \/ \E n \in Nodes, g \in AGens, delta \in {-1, 1} : BarAlter(n, g, delta)
  \/ \E n \in Nodes, h \in b_handles : BarArriveOn(n, h)
  \/ \E n \in Nodes, g \in AGens : BarArrive(n, g, NoValue)
  \/ BarHandleAdjust

SpecAdjust == InitBarrier /\ [][NextAdjust]_vars

\* ------------------------------------------------------------ SpecReduce
\* a barrier with the sum reduction: arrivals that carry a value, queries and
\* get_result calls on both nodes, the messages delivered in any order
InitReduce ==
  /\ EventIdle
  /\ MergeIdle
  /\ UserIdle
  /\ BarrierCreated(TRUE)

NextReduce ==
  \/ \E n \in Nodes, g \in RGens, v \in Values : BarArrive(n, g, v)
  \/ BarHandleAdjust
  \/ \E n \in Nodes, g \in RGens : BarHasTriggered(n, g)
  \/ BarHandleSubscribe
  \/ BarHandleTrigger
  \/ \E n \in Nodes, g \in RGens : BarGetResult(n, g)

SpecReduce == InitReduce /\ [][NextReduce]_vars

\* ------------------------------------------------------------ SpecResult
\* the same barrier, an arrival carrying a value or none (reduce_value_size
\* == 0); the other node asks has_triggered, the owner get_result
NextResult ==
  \/ \E n \in Nodes, g \in RGens, v \in Values \cup {NoValue} : BarArrive(n, g, v)
  \/ BarHandleAdjust
  \/ \E g \in RGens : BarHasTriggered("remote", g)
  \/ BarHandleSubscribe
  \/ BarHandleTrigger
  \/ \E g \in RGens : BarGetResult("owner", g)

SpecResult == InitReduce /\ [][NextResult]_vars

\* ---------------------------------------------------------- SpecDeferred
\* every arrival of the barrier is given the same wait_on event, which
\* triggers on either node first, with or without poison
NextDeferred ==
  \/ \E n \in Nodes, a \in Deferred, g \in BGens : BarArriveAfter(n, a, g)
  \/ \E a \in Deferred : BarDeferAddWaiter(a)
  \/ \E n \in Nodes, p \in BOOLEAN : WaitOnTriggered(n, p)
  \/ \E a \in Deferred : DeferredBarrierArrivalTriggered(a)
  \/ BarHandleAdjust

SpecDeferred == InitBarrier /\ [][NextDeferred]_vars

\* ------------------------------------------------------ claims on barriers
\* C11: on the owner and on the other node, a waiter registered for
\* generation g is fired only when the node's generation is at least g, and a
\* node's generation is at least g only when every generation up to g has
\* triggered on the owner.
C11_WaitersAfterGeneration ==
  /\ \A k \in WaiterIds : \A i \in 1..Len(bw_fired[k]) :
       bw_fired[k][i].generation >= bw_gen[k]
  /\ \A n \in Nodes : \A g \in 1..bar[n].generation : g \in b_trigd

\* a queued waiter for generation 2 was fired on each node
C11_Witness ==
  \A n \in Nodes : \E k \in WaiterIds :
    /\ bw_node[k] = n /\ bw_gen[k] = 2
    /\ Len(bw_fired[k]) = 1 /\ bw_fired[k][1].queued

\* has_triggered(needed_gen) as node n would answer it now
BarTriggered(n, needed_gen) == needed_gen <= bar[n].generation

\* C12: once base_arrival_count arrivals on generation 1 have been issued,
\* has_triggered(1) becomes true on the owner, and on the other node if it
\* has subscribed by a has_triggered call that answered false; as long as
\* fewer than base_arrival_count arrivals on generation 2 have been issued,
\* has_triggered(2) is false on every node.
C12_AllArriveThenTriggered ==
  /\ [](b_issued[2] < b_base => \A n \in Nodes : ~BarTriggered(n, 2))
  /\ (b_issued[1] = b_base) ~> BarTriggered("owner", 1)
  /\ (b_issued[1] = b_base /\ bar["remote"].gen_subscribed >= 1) ~> BarTriggered("remote", 1)

\* MaxArrivals arrivals on generation 1 and none on generation 2 were issued,
\* all messages are delivered and both nodes see generation 1 triggered
C12_Witness ==
  /\ b_base = MaxArrivals /\ b_issued[1] = b_base /\ b_issued[2] = 0
  /\ b_net = EmptyBag
  /\ bar["remote"].gen_subscribed = 1
  /\ \A n \in Nodes : BarTriggered(n, 1) /\ ~BarTriggered(n, 2)

\* fold(redop, init, the values of bag B), the values taken in a fixed order
RECURSIVE Fold(_, _)
Fold(init, B) ==
  IF B = EmptyBag THEN init
  ELSE LET v == CHOOSE x \in BagToSet(B) : TRUE
       IN Fold(RedopApply(init, v), B (-) SetToBag({v}))

\* C13: on the owner of a barrier with a reduction, every generation that has
\* triggered received the reduce values of base_arrival_count arrivals, and a
\* get_result of it that succeeds returns the fold of initial_value with
\* those values, whatever the order the arrivals were applied in.
C13_OwnerResultIsFold ==
  /\ \A g \in 1..bar["owner"].generation : BagCardinality(b_applied[g]) = b_base
  /\ (b_res.node = "owner" /\ b_res.ret) => b_res.buf = Fold(initial_value, b_applied[b_res.gen])

\* get_result on the owner returned the fold of two different values
C13_Witness ==
  /\ b_res.node = "owner" /\ b_res.ret /\ b_res.gen = 1
  /\ Cardinality(BagToSet(b_applied[1])) = 2 /\ BagCardinality(b_applied[2]) > 0
  /\ b_res.buf = 3

\* C14: on the node that does not own the barrier, the BarrierTrigger
\* handler stores the reduction data it is sent without failing, and a
\* get_result that succeeds there returns what get_result returns on the owner.
C14_RemoteResultEqualsOwner ==
  /\ fatal \notin {"BarrierTriggerMessage: datalen == sizeof_lhs * (trigger_gen - previous_gen)",
                   "BarrierTriggerMessage: memcpy past the end of final_values"}
  /\ (b_res.node = "remote" /\ b_res.ret) =>
       b_res.buf = bar["owner"].final_values[ResultSlot(b_res.gen, bar["owner"].first_generation)]

\* the BarrierTrigger messages not yet handled
TriggersInFlight == {m \in BagToSet(b_net) : m.type = "BarrierTrigger"}

\* waiter j was notified before waiter k, both taken from local_waiters
FiredBefore(j, k) ==
  \/ bw_fired[j][1].generation < bw_fired[k][1].generation
  \/ /\ bw_fired[j][1].generation = bw_fired[k][1].generation
     /\ bw_fired[j][1].pos < bw_fired[k][1].pos

\* C15: on the node that does not own the barrier, a BarrierTrigger that is
\* put into held_triggers leaves the generation, the waiter lists and every
\* waiter alone; no queued waiter is fired while its generation is above the
\* node's generation; the held triggers left all start above the node's
\* generation; queued waiters of a lower generation are fired before those of
\* a higher one; and when every BarrierTrigger sent has been handled, in
\* whatever order, the generation is the trigger_gen of the last one sent.
C15_HeldTriggersRelinearized ==
  /\ [][ ~(bar'["remote"].held_triggers \subseteq bar["remote"].held_triggers) =>
           /\ bar'["remote"].generation = bar["remote"].generation
           /\ bar'["remote"].generations = bar["remote"].generations
           /\ bw_fired' = bw_fired ]_vars
  /\ [](\A k \in WaiterIds : \A i \in 1..Len(bw_fired[k]) :
          bw_node[k] = "remote" => bw_fired[k][i].generation >= bw_gen[k])
  /\ [](\A p \in bar["remote"].held_triggers : p[1] > bar["remote"].generation)
  /\ [](\A j, k \in WaiterIds :
          /\ bw_node[j] = "remote" /\ bw_node[k] = "remote" /\ bw_gen[j] < bw_gen[k]
          /\ bw_fired[j] # <<>> /\ bw_fired[k] # <<>>
          /\ bw_fired[j][1].queued /\ bw_fired[k][1].queued
          => FiredBefore(j, k))
  /\ [](TriggersInFlight = {} =>
          /\ bar["remote"].held_triggers = {}
          /\ b_rtg # -1 => bar["remote"].generation = b_rtg)

\* the node held BarrierTrigger(previous 2, trigger 3) at generation 1, then
\* handled BarrierTrigger(previous 1, trigger 2): its waiters of generations 2
\* and 3 were fired by that one message, at generation 3
C15_Witness ==
  \E j, k \in WaiterIds :
    /\ bw_node[j] = "remote" /\ bw_gen[j] = 2 /\ Len(bw_fired[j]) = 1
    /\ bw_node[k] = "remote" /\ bw_gen[k] = 3 /\ Len(bw_fired[k]) = 1
    /\ bw_fired[j][1] = [gen |-> 2, was |-> 1, generation |-> 3, queued |-> TRUE, pos |-> 1]
    /\ bw_fired[k][1] = [gen |-> 2, was |-> 1, generation |-> 3, queued |-> TRUE, pos |-> 2]

\* the sum of the deltas of a bag of <<timestamp, delta, held>>
RECURSIVE SumApplied(_)
SumApplied(B) ==
  IF B = EmptyBag THEN 0
  ELSE LET a == CHOOSE x \in BagToSet(B) : TRUE
       IN a[2] + SumApplied(B (-) SetToBag({a}))

C20_GetResultNotTriggered ==
  /\ [][ b_res' # b_res =>
           /\ b_res'.gen > bar[b_res'.node].generation =>
                /\ ~b_res'.ret
                /\ b_res'.buf = b_res.buf
                /\ UNCHANGED <<bar, b_sub, b_rtg, b_net, fatal>>
           /\ b_res'.ret => b_res'.gen <= bar[b_res'.node].generation ]_vars
  /\ [](b_res.ret => b_res.gen <= bar[b_res.node].generation)

\* the other node got the result of generation 1 and then asked for
\* generation 2, not triggered there: false, the buffer still holds the result
C20_Witness ==
  /\ b_res.node = "remote" /\ b_res.gen = 2 /\ ~b_res.ret
  /\ bar["remote"].generation = 1
  /\ b_res.buf \in Values

\* ------------------------------------------- claims on event waiters
\* waiter k sits in current_local_waiters or future_local_waiters of its node
WaiterQueued(k) ==
  LET e == impl[w_node[k]]
  IN \/ k \in SeqToSet(e.current_local_waiters)
     \/ \E g \in Gens : k \in SeqToSet(e.future_local_waiters[g])

C18_RemoteWaiterEventuallyInvoked ==
  \A k \in WaiterIds : \A g \in Gens :
    (w_node[k] = "remote" /\ w_gen[k] = g /\ impl["owner"].generation >= g)
      ~> (w_fired[k] # <<>>)

\* C19: once a node has itself called trigger for generation g of an event
\* it does not own, every has_triggered(g) call that begins on that node
\* afterwards returns true, whether or not an Update has arrived.
C19_OwnTriggerSeenLocally ==
  (ht_pc = 0 /\ ht_own /\ ht_watch[1] = "remote") => ht_ret # "false"

\* C21: an arrival issued with a wait_on event that had not triggered on the
\* issuing node changes nothing of the owner's count before wait_on has
\* triggered: while wait_on has triggered on no node the owner holds no
\* adjustment and no generation has triggered, and an arrival that was
\* deferred, on the owner or forwarded to it, is applied only after the
\* owner found wait_on triggered.
C21_DeferredArrivalWaits ==
  /\ (\A n \in Nodes : wo[n] = "no") =>
       /\ bar["owner"] = BarInit
       /\ \A g \in BGens : b_hist[g] = EmptyBag
       /\ \A a \in Deferred : d_pc[a] \notin {"woken", "sent", "applied"}
  /\ \A a \in Deferred :
       (d_pc[a] = "applied" /\ d_via[a][1][2] = FALSE) =>
          /\ wo["owner"] = "clean"
          /\ d_via[a][Len(d_via[a])] = <<"owner", TRUE>>

\* one arrival was deferred by a waiter on the owner and one was forwarded
\* by the other node with wait_on attached and deferred again on the owner;
\* both were applied after wait_on triggered and the generation triggered
C21_Witness ==
  \E a, b \in Deferred :
    /\ d_pc[a] = "applied" /\ d_via[a] = <<<<"owner", FALSE>>, <<"owner", TRUE>>>>
    /\ d_pc[b] = "applied"
    /\ d_via[b] = <<<<"remote", FALSE>>, <<"owner", FALSE>>, <<"owner", TRUE>>>>
    /\ d_gen[a] = 1 /\ d_gen[b] = 1
    /\ bar["owner"].generation = 1

\* C22: the merger counts a fault only for an input that has triggered
\* with poison: faults_observed never exceeds the number of poisoned inputs,
\* and finish_event is not triggered with poison while no input is poisoned.
C22_FaultOnlyWhenPoisoned ==
  MergerBuilt =>
    /\ m_faults <= Cardinality({e \in mg_set : InputPoisoned(e)})
    /\ (\E i \in 1..Len(f_trigs) : f_trigs[i]) => \E e \in mg_set : InputPoisoned(e)

\* C23: on the owner and on the other node, in every reachable state,
\* gen_subscribed is at least generation.
C23_SubscribedCoversGeneration ==
  \A n \in Nodes : impl[n].gen_subscribed >= impl[n].generation

PoisonedListOrdered(e) ==
  /\ \A i, j \in 1..num_poisoned_generations(e) :
       i < j => e.poisoned_generations[i] < e.poisoned_generations[j]
  /\ \A i \in 1..num_poisoned_generations(e) : e.poisoned_generations[i] \in 1..e.generation
  /\ num_poisoned_generations(e) <= POISONED_GENERATION_LIMIT

OwnerTriggersPassed ==
  {c \in ot_calls : OwnerTriggerAssert(c.found, c.gen_triggered, c.poisoned) = "none"}

\* C25: on the owner every trigger call with gen_triggered other than
\* generation + 1, made locally or for a Trigger message, stops at the
\* assertion and leaves the event as it found it; the calls that pass are one
\* for each generation up to the owner's generation, and a step raises the
\* owner's generation by one or not at all.
C25_OwnerTriggersInOrder ==
  /\ [](/\ \A c \in ot_calls :
             c.gen_triggered # c.found.generation + 1 =>
               /\ fatal = "trigger: gen_triggered == generation + 1"
               /\ impl["owner"] = c.found
        /\ {c.gen_triggered : c \in OwnerTriggersPassed} = 1..impl["owner"].generation
        /\ Cardinality(OwnerTriggersPassed) = impl["owner"].generation)
  /\ [][impl'["owner"].generation \in
          {impl["owner"].generation, impl["owner"].generation + 1}]_vars

\* after generations 1 and 2 were triggered on the owner, a Trigger message
\* for generation 1 stopped at the assertion
C25_Witness ==
  /\ fatal = "trigger: gen_triggered == generation + 1"
  /\ impl["owner"].generation = 2
  /\ \E c \in ot_calls : c.gen_triggered = 1 /\ c.found.generation = 2 /\ ~c.local

\* a step in which the non-owner triggers a generation g above generation + 1
RemoteTriggersAhead(g) ==
  /\ trig_by[g] = "none" /\ trig_by'[g] = "remote"
  /\ g > impl["remote"].generation + 1

UpdateHandled == to_remote # <<>> /\ to_remote' = Tail(to_remote)

\* what such a step does to the fields, the Trigger message and the waiters
AheadFrame(g) ==
  /\ impl'["remote"].generation = impl["remote"].generation
  /\ impl'["remote"].poisoned_generations = impl["remote"].poisoned_generations
  /\ to_owner'[Len(to_owner) + 1] =
       TriggerMsg(g, impl'["remote"].local_triggers[g] = "poisoned")
  /\ impl'["remote"].local_triggers[g] # "absent"
  /\ \A k \in WaiterIds :
       (w_fired'[k] # w_fired[k]) <=>
         (w_node[k] = "remote" /\ w_gen[k] = g /\ w_fired[k] = <<>>)

\* has_triggered turns true for a generation below a local trigger only in
\* a step that handles an Update
TurnsTrueByUpdate ==
  \A h \in Gens :
    (/\ impl["remote"].generation < h
     /\ \E g \in Gens : g > h /\ impl["remote"].local_triggers[g] # "absent"
     /\ ~HasTriggeredAt(impl["remote"], h)[1]
     /\ HasTriggeredAt(impl'["remote"], h)[1])
      => UpdateHandled

\* C26 as stated: a step in which the non-owner triggers a generation g above
\* its generation + 1 leaves its generation alone, records the poison bit in
\* local_triggers[g], wakes exactly the waiters it holds for g, and
\* has_triggered is false there for every generation between its generation
\* and g until an Update is handled.
C26_IntermediateAllFalse ==
  [][/\ \A g \in Gens :
          RemoteTriggersAhead(g) =>
            /\ AheadFrame(g)
            /\ \A h \in Gens :
                 (impl["remote"].generation < h /\ h < g) =>
                    ~HasTriggeredAt(impl'["remote"], h)[1]
     /\ TurnsTrueByUpdate]_vars

\* C26, amended: such a step leaves the generation alone, records the poison
\* bit in local_triggers[g], wakes exactly the waiters held for g and leaves
\* the answer of has_triggered for every generation between the node's
\* generation and g as it was: false for each one the node has not itself
\* triggered, and turning true only when an Update is handled.
C26_NonContiguousTrigger ==
  [][/\ \A g \in Gens :
          RemoteTriggersAhead(g) =>
            /\ AheadFrame(g)
            /\ \A h \in Gens :
                 (impl["remote"].generation < h /\ h < g) =>
                    /\ HasTriggeredAt(impl'["remote"], h) = HasTriggeredAt(impl["remote"], h)
                    /\ trig_by[h] # "remote" => ~HasTriggeredAt(impl'["remote"], h)[1]
     /\ TurnsTrueByUpdate]_vars

\* the non-owner, still at generation 0, has triggered generation 2 and then
\* generation 3 with poison: its waiter for generation 3 was woken, the one
\* for generation 1 was not, has_triggered is false there for generation 1
\* and true for generation 2
C26_Witness ==
  /\ trig_by[2] = "remote" /\ trig_by[3] = "remote"
  /\ impl["remote"].generation = 0
  /\ impl["remote"].local_triggers[3] = "poisoned"
  /\ ~HasTriggeredAt(impl["remote"], 1)[1]
  /\ HasTriggeredAt(impl["remote"], 2)[1]
  /\ \E j, k \in WaiterIds :
       /\ w_node[j] = "remote" /\ w_gen[j] = 1 /\ w_fired[j] = <<>>
       /\ w_node[k] = "remote" /\ w_gen[k] = 3 /\ Len(w_fired[k]) = 1
       /\ w_fired[k][1].poisoned /\ w_fired[k][1].now = 0

\* the owner appends an Update of its new state, of generation gen or later
UpdateSent(gen) ==
  /\ Len(to_remote') = Len(to_remote) + 1
  /\ to_remote'[Len(to_remote')].type = "Update"
  /\ to_remote'[Len(to_remote')].gen >= gen
  /\ to_remote'[Len(to_remote')].gen = impl'["owner"].generation
  /\ to_remote'[Len(to_remote')].poisoned_generations = impl'["owner"].poisoned_generations

\* C27: a step in which the owner handles Subscribe(g, previous_gen) of the
\* other node either stops at the assertion, exactly when g is above
\* generation + 1, or sends that node an Update with current_gen >= g, or
\* finds g = generation + 1 and leaves the node in remote_waiters; and a step
\* that triggers the next generation with the node in remote_waiters sends it
\* the Update of that generation.
C27_SubscribeAnswered ==
  [][/\ (/\ fatal = "none"
         /\ to_owner # <<>> /\ Head(to_owner).type = "Subscribe"
         /\ to_owner' = Tail(to_owner)) =>
          LET gen == Head(to_owner).gen
              e   == impl["owner"]
          IN IF gen > e.generation + 1
             THEN /\ fatal' = "subscribe: args.event.gen <= impl->generation"
                  /\ impl' = impl /\ to_remote' = to_remote
             ELSE /\ fatal' = "none"
                  /\ \/ UpdateSent(gen)
                     \/ /\ gen = e.generation + 1
                        /\ "remote" \in impl'["owner"].remote_waiters
     /\ (/\ "remote" \in impl["owner"].remote_waiters
         /\ impl'["owner"].generation # impl["owner"].generation)
          => (UpdateSent(impl["owner"].generation + 1)
              /\ impl'["owner"].remote_waiters = {})]_vars

\* the owner recorded the subscription of the other node for generation 2
\* while at generation 1, triggered generation 2 with poison and sent the
\* Update; a later Subscribe for generation 3 was answered with that state
C27_Witness ==
  /\ fatal = "none"
  /\ impl["owner"].generation = 2
  /\ \E c \in ot_calls : c.gen_triggered = 2 /\ c.poisoned /\ "remote" \in c.found.remote_waiters
  /\ "remote" \in impl["owner"].remote_waiters
  /\ \E i \in 1..Len(to_remote) : to_remote[i] = UpdateMsg(2, <<2>>)

\* C28: a step in which the non-owner handles an Update with current_gen <=
\* generation fires no waiter and leaves the implementation of that node, with
\* generation, poisoned_generations, current_local_waiters,
\* future_local_waiters and local_triggers, as it was.
C28_StaleUpdateIgnored ==
  [][(UpdateHandled /\ Head(to_remote).gen <= impl["remote"].generation) =>
       /\ w_fired' = w_fired
       /\ impl'["remote"] = impl["remote"]
       /\ impl'["owner"] = impl["owner"]]_vars

\* the non-owner subscribed to generation 1 with a waiter, triggered it itself
\* with poison, and the owner's Update for generation 1 arrived afterwards and
\* has been handled
C28_Witness ==
  /\ fatal = "none"
  /\ trig_by[1] = "remote"
  /\ impl["remote"].generation = 1
  /\ impl["remote"].local_triggers[1] = "poisoned"
  /\ impl["remote"].poisoned_generations = <<>>
  /\ impl["owner"].poisoned_generations = <<1>>
  /\ \E c \in ot_calls : /\ c.gen_triggered = 1 /\ ~c.local
                          /\ "remote" \in c.found.remote_waiters
  /\ \E k \in DOMAIN w_gen : w_node[k] = "remote" /\ w_gen[k] = 1 /\ w_fired[k] # <<>>
  /\ to_remote = <<>> /\ to_owner = <<>>

\* C29: a step in which the non-owner handles an Update runs past the
\* consistency assertions when the poisoned list of the Update has the node's
\* poisoned list as a prefix, a strictly longer list over a non-empty local
\* list included, and stops at one of them when it has not.
C29_PrefixUpdatesAccepted ==
  [][UpdateHandled =>
       (IsPrefix(impl["remote"].poisoned_generations, Head(to_remote).poisoned_generations)
          <=> fatal' \notin
                {"process_update: num_poisoned_generations <= new_poisoned_count",
                 "process_update: memcmp(poisoned_generations, new_poisoned_generations) == 0",
                 "process_update: num_poisoned_generations == 0"})]_vars

\* C30: while waiters taken out of current_local_waiters by an owner trigger
\* have not been invoked, the implementation is not on the free list and has
\* not been handed out again.
C30_FreedAfterWaitersInvoked ==
  \A i \in 1..Len(ot_wake) :
     ot_wake[i].to_wake # <<>> => ~ev_free /\ ev_created = ot_wake[i].gen

\* C31: a step that advances the owner's generation leaves the event on the
\* free list iff its poisoned count is below POISONED_GENERATION_LIMIT
\* afterwards; once the count is at the limit the event is never free, no
\* further generation is created or triggered, and the assertion on the limit
\* is never what stops the program.
C31_RetiredAtPoisonLimit ==
  /\ [](fatal # "trigger: num_poisoned_generations < POISONED_GENERATION_LIMIT")
  /\ [](num_poisoned_generations(impl["owner"]) = POISONED_GENERATION_LIMIT
          => ~ev_free /\ ev_created <= impl["owner"].generation)
  /\ [][/\ impl'["owner"].generation # impl["owner"].generation
           => ev_free' = (num_poisoned_generations(impl'["owner"]) < POISONED_GENERATION_LIMIT)
        /\ num_poisoned_generations(impl["owner"]) = POISONED_GENERATION_LIMIT
           => impl'["owner"].generation = impl["owner"].generation]_vars

\* generations 1 and 2 were both triggered with poison, one of them by the
\* other node, and every message has been handled
C31_Witness ==
  /\ fatal = "none"
  /\ impl["owner"].poisoned_generations = <<1, 2>>
  /\ trig_by[2] = "remote"
  /\ ~ev_free
  /\ to_owner = <<>> /\ to_remote = <<>>

\* C32: a step that advances the owner's generation adjusts generation + 1
\* and advances over generations that each hold base_arrival_count +
\* unguarded_delta = 0 at that moment; it goes on over every following
\* generation whose count is zero already, so that in no state the generation
\* after the owner's is tracked with a count of zero.
C32_DrainInOrder ==
  /\ [](LET e == bar["owner"]
        IN e.generation < MaxBarGen /\ e.generations[e.generation + 1].present
             => b_base + e.generations[e.generation + 1].unguarded_delta # 0)
  /\ [][LET e == bar["owner"]
            G == bar'["owner"].generation
        IN G # e.generation
             => /\ G > e.generation
                /\ b_hist'[e.generation + 1] # b_hist[e.generation + 1]
                /\ \A g \in (e.generation + 1)..G : b_base + SumApplied(b_hist'[g]) = 0
                /\ \A g \in BGens : g > G /\ bar'["owner"].generations[g].present
                      => bar'["owner"].generations[g].unguarded_delta = SumApplied(b_hist'[g])]_vars

\* the owner went from generation 0 to generation 2 in one call, waking a
\* waiter of generation 2 whose arrivals had all come before those of
\* generation 1
C32_Witness ==
  /\ fatal = "none"
  /\ \E k \in WaiterIds :
       /\ bw_node[k] = "owner" /\ bw_gen[k] = 2
       /\ bw_fired[k] # <<>>
       /\ bw_fired[k][1].was = 0 /\ bw_fired[k][1].generation = 2 /\ bw_fired[k][1].queued

\* C33: on the owner, for every tracked generation and origin node, no step
\* lowers last_ts, and no delta below zero waits in pending with a timestamp
\* at or below that of a delta above zero of the same origin that has been
\* applied to the generation.
C33_IncrementsReleaseArrivals ==
  /\ [](\A g \in BGens, n \in Nodes :
          LET gn == bar["owner"].generations[g]
          IN gn.present =>
               \A p \in gn.pernode[n].pending :
                 p[2] < 0 =>
                   \A a \in BagToSet(b_hist[g]) :
                     a[1] # NoTs /\ a[1][1] = n /\ a[2] > 0 => a[1][2] < p[1])
  /\ [][\A g \in BGens, n \in Nodes :
          bar["owner"].generations[g].present /\ bar'["owner"].generations[g].present
            => bar'["owner"].generations[g].pernode[n].last_ts
                 >= bar["owner"].generations[g].pernode[n].last_ts]_vars

\* C34: on the owner the entry of remote_subscribe_gens for the other node,
\* when there is one, is above generation in every state, and the assertion
\* of the Subscribe handler on it never fails.
C34_SubscriptionsAhead ==
  /\ b_sub # 0 => b_sub > bar["owner"].generation
  /\ fatal # "BarrierSubscribeMessage: it->second > generation"

\* the other node subscribed up to generation 3, the owner has triggered
\* generations 1 and 2, told the node of them and kept the subscription
C34_Witness ==
  /\ fatal = "none"
  /\ b_sub = 3
  /\ bar["owner"].generation = 2
  /\ b_rtg = 2

\* C35: every BarrierTrigger the owner sends to the other node carries
\* previous_gen < trigger_gen <= generation, its previous_gen is the
\* trigger_gen of the one sent before it, or first_generation for the first,
\* and the ranges of those not yet handled do not overlap.
C35_TriggerRangesContiguous ==
  /\ [](\A m \in TriggersInFlight :
          /\ m.previous_gen < m.trigger_gen
          /\ m.trigger_gen <= bar["owner"].generation
          /\ m.trigger_gen <= b_rtg
          /\ CopiesIn(m, b_net) = 1
          /\ \A m2 \in TriggersInFlight \ {m} :
                m.trigger_gen <= m2.previous_gen \/ m2.trigger_gen <= m.previous_gen)
  /\ [][\A m \in BagToSet(b_net') :
          m.type = "BarrierTrigger" /\ CopiesIn(m, b_net') > CopiesIn(m, b_net)
            => /\ m.previous_gen = (IF b_rtg = -1 THEN bar["owner"].first_generation ELSE b_rtg)
               /\ m.first_generation = bar["owner"].first_generation
               /\ b_rtg' = m.trigger_gen
               /\ m.previous_gen < m.trigger_gen
               /\ m.trigger_gen <= bar'["owner"].generation]_vars

\* three BarrierTriggers are on their way, the first sent by the Subscribe
\* handler for generation 1, the others by the arrivals that triggered
\* generations 2 and 3
C35_Witness ==
  /\ fatal = "none"
  /\ {<<m.previous_gen, m.trigger_gen>> : m \in TriggersInFlight} = {<<0, 1>>, <<1, 2>>, <<2, 3>>}

\* C36: the generation of the node that does not own the barrier never goes
\* down and is never above the owner's; a step that handles a BarrierTrigger
\* whose previous_gen is not the node's generation leaves the generation and
\* the tracked generations with their local_waiters alone, wakes no waiter
\* and puts previous_gen -> trigger_gen into held_triggers.
C36_RemoteGenerationFollows ==
  /\ [](bar["remote"].generation <= bar["owner"].generation)
  /\ [][bar'["remote"].generation >= bar["remote"].generation]_vars
  /\ [][\A m \in TriggersInFlight :
          (/\ b_net' = b_net (-) SetToBag({m})
           /\ fatal' = "none"
           /\ m.previous_gen # bar["remote"].generation)
            => /\ bar'["remote"].generation = bar["remote"].generation
               /\ bar'["remote"].generations = bar["remote"].generations
               /\ bw_fired' = bw_fired
               /\ bar'["remote"].held_triggers =
                    {p \in bar["remote"].held_triggers : p[1] # m.previous_gen}
                      \cup {<<m.previous_gen, m.trigger_gen>>}]_vars

\* the trigger of generation 2 overtook that of generation 1: it is held, the
\* node is at generation 0 and its waiter for generation 2 has not been called
C36_Witness ==
  /\ fatal = "none"
  /\ bar["remote"].generation = 0
  /\ bar["remote"].held_triggers = {<<1, 2>>}
  /\ \E k \in WaiterIds : bw_node[k] = "remote" /\ bw_gen[k] = 2 /\ bw_fired[k] = <<>>

\* C37: on the node that does not own the barrier, has_triggered(g) with g
\* above generation sends a BarrierSubscribe and changes the node exactly when
\* gen_subscribed < g; the step that sends BarrierSubscribe(g) raises
\* gen_subscribed to g, so that a second call for g sends nothing, and no step
\* lowers gen_subscribed.
C37_SubscribeOnce ==
  /\ [](\A g \in BGens :
          fatal = "none" /\ g > bar["remote"].generation
            => ((ENABLED <<BarHasTriggered("remote", g)>>_vars) <=> bar["remote"].gen_subscribed < g))
  /\ [][bar'["remote"].gen_subscribed >= bar["remote"].gen_subscribed]_vars
  /\ [][\A g \in BGens :
          CopiesIn(BarSubscribeMsg(g), b_net') > CopiesIn(BarSubscribeMsg(g), b_net)
            => /\ bar["remote"].gen_subscribed < g
               /\ g > bar["remote"].generation
               /\ bar'["remote"].gen_subscribed = g
               /\ CopiesIn(BarSubscribeMsg(g), b_net') = CopiesIn(BarSubscribeMsg(g), b_net) + 1
               /\ CopiesIn(BarSubscribeMsg(g), b_net) = 0]_vars

\* has_triggered(1) and then has_triggered(3) were called on the node, both
\* BarrierSubscribes are on their way, and a call for generation 2 would
\* send nothing
C37_Witness ==
  /\ fatal = "none"
  /\ bar["remote"].generation = 0
  /\ bar["remote"].gen_subscribed = 3
  /\ CopiesIn(BarSubscribeMsg(1), b_net) = 1
  /\ CopiesIn(BarSubscribeMsg(3), b_net) = 1
  /\ ~ENABLED <<BarHasTriggered("remote", 2)>>_vars

\* C38: on the node that does not own the event no step lowers
\* gen_subscribed, and a step that sends a Subscribe for generation g starts
\* with gen_subscribed below g.
C38_SubscribedOnlyRaised ==
  [][/\ impl'["remote"].gen_subscribed >= impl["remote"].gen_subscribed
     /\ (/\ Len(to_owner') > Len(to_owner)
         /\ to_owner'[Len(to_owner')].type = "Subscribe")
          => impl["remote"].gen_subscribed < to_owner'[Len(to_owner')].gen]_vars

\* C39: once external_wait(g, poisoned) has returned, generation g has
\* triggered on the node, the poisoned it reported is the poison bit of g, and
\* the waiter on its stack has received no event_triggered call since.
C39_ExternalWaitResult ==
  ext_wait.pc = "returned" =>
    /\ impl[w_node[ExternalWaiter]].generation >= w_gen[ExternalWaiter]
    /\ ext_wait.poisoned = is_generation_poisoned(impl[w_node[ExternalWaiter]], w_gen[ExternalWaiter])
    /\ Len(w_fired[ExternalWaiter]) = ext_wait.fired

\* C40: on the owner of a barrier with a reduction, final_values has a slot
\* for every triggered generation, so that get_result never fails its
\* capacity assertion and no trigger snapshot holds bytes from outside the
\* storage; a get_result that succeeds for a generation none of whose arrivals
\* carried a value yields the initial value.
C40_StorageCoversTriggered ==
  /\ \A g \in b_trigd :
       ResultSlot(g, bar["owner"].first_generation) <= Len(bar["owner"].final_values)
  /\ fatal # "get_result: rel_gen <= value_capacity"
  /\ \A m \in BagToSet(b_net) :
       m.type = "BarrierTrigger" => \A i \in 1..Len(m.data) : m.data[i] # Uninit
  /\ (b_res.node = "owner" /\ b_res.ret /\ b_applied[b_res.gen] = EmptyBag)
       => b_res.buf = initial_value

====
